---- MODULE Spec2Model ----
(***************************************************************************)
(* Voter registration, verification and single-use voting credentials:     *)
(* the Express controllers (voterController, qrCodeService, routes/qrcode),*)
(* the MongoDB Voter collection and the VoterID contract.                  *)
(***************************************************************************)
EXTENDS Integers, Sequences, FiniteSets, TLC

\* ------------------------------------------------------------------ bounds
\* The clock runs from 1 to MaxTime (one unit = the resolution of Date).
MaxTime == 2
\* At most MaxDocs documents are ever inserted in the voters collection.
MaxDocs == 2
\* At most MaxIssued QR payloads are ever produced by the issuer.
MaxIssued == 2

\* The master wallet's starting balance, in units of INITIAL_FUNDING_AMOUNT.
MasterFunds == 2

\* ------------------------------------------------------------ value spaces
Procs == {"p1", "p2"}
Aadhars == {"1111"}
Names == {"asha"}
NULL == "null"
None == << >>
Some(x) == << x >>

\* process.env.PRIVATE_KEY's account: deployer of the contract and sender of
\* every backend transaction; process.env.ADMIN_ADDRESS is the same account.
SIGNER == "0xSigner"
ADMIN_ADDRESS == "0xSigner"
MALLORY == "0xMallory"
\* process.env.MASTER_PRIVATE_KEY's account, the sender of every funding.
MASTER == "0xMaster"
WALLET_SALT == "default_salt_12345"
SYSTEM_ID == "MYVOTE_SYSTEM_V1"
ZeroHash == "0x00"
ZeroAddress == "0x0"

\* createHash: keccak256 over the UTF-8 bytes, an injective tagging here.
createHash(data) == "keccak256(" \o data \o ")"

createBlockchainHashes(name, aadharNumber) ==
    [nameHash |-> createHash(name), aadharHash |-> createHash(aadharNumber)]

\* generateWalletFromAadhar: private key = sha256(aadhar + salt), address = the
\* key's account.
generateWalletFromAadhar_SaltOnly(aadharNumber) ==
    LET privateKey == "sha256(" \o WALLET_SALT \o ")"
    IN  [privateKey |-> privateKey, address |-> "addr(" \o privateKey \o ")"]

generateWalletFromAadhar(aadharNumber) ==
    LET privateKey == "sha256(" \o aadharNumber \o WALLET_SALT \o ")"
    IN  [privateKey |-> privateKey, address |-> "addr(" \o privateKey \o ")"]

Wallets == {"0xW1"}
DerivedAddrs == {generateWalletFromAadhar(a).address : a \in Aadhars}
\* Addresses a wallet-based registration may carry.
ReqAddrs == Wallets \cup DerivedAddrs
AllAddrs == ReqAddrs \cup {SIGNER, MALLORY}

\* ------------------------------------------------------------------- state
VARIABLES
    voters,             \* VoterID.voters: address -> Voter struct
    usedAadharHashes,   \* VoterID.usedAadharHashes (the set of true keys)
    admin,              \* VoterID.admin
    voterCount,         \* VoterID.voterCount
    registrationOpen,   \* VoterID.registrationOpen
    voterDocs,          \* the MongoDB voters collection, in insertion order
    qrFiles,            \* Firebase storage: aadharHash -> payload of qr-code.png
    issued,             \* history: every payload generateQRCodeForVoter returned
    now,                \* the clock (Date.now / block.timestamp)
    pc,                 \* per request slot: position in its handler
    loc,                \* per request slot: the handler's request and locals
    resp,               \* per request slot: the response of its last request
    workload,           \* which handlers the clients issue concurrently
    helperCall,         \* a helper function called on its own: arguments and result
    balances            \* ether held by the master wallet and the derived wallets

chainVars == <<voters, usedAadharHashes, admin, voterCount, registrationOpen>>
vars == <<voters, usedAadharHashes, admin, voterCount, registrationOpen,
          voterDocs, qrFiles, issued, now, pc, loc, resp, workload, helperCall, balances>>

\* ---------------------------------------------------------------- contract
EmptyVoter ==
    [nameHash |-> ZeroHash, aadharHash |-> ZeroHash, isVerified |-> FALSE,
     registrationTimestamp |-> 0, lastVerifiedTimestamp |-> 0]

Contract ==
    [voters |-> voters, usedAadharHashes |-> usedAadharHashes, admin |-> admin,
     voterCount |-> voterCount, registrationOpen |-> registrationOpen]

\* A call's outcome: the storage it leaves and the events it emits; a revert
\* leaves the storage as it was and emits nothing.
Revert(c, e) == [ok |-> FALSE, error |-> e, st |-> c, events |-> << >>]
Done(c, ev) == [ok |-> TRUE, error |-> "", st |-> c, events |-> ev]

\* A registerVoter that leaves voterCount as it was.
VoterID_registerVoter_Uncounted(c, sender, nameHash, aadharHash, ts) ==
    IF ~c.registrationOpen THEN Revert(c, "RegistrationClosed")
    ELSE IF c.voters[sender].registrationTimestamp # 0 THEN Revert(c, "AlreadyRegistered")
    ELSE IF aadharHash \in c.usedAadharHashes THEN Revert(c, "AadharAlreadyRegistered")
    ELSE IF nameHash = ZeroHash THEN Revert(c, "EmptyHash")
    ELSE IF aadharHash = ZeroHash THEN Revert(c, "EmptyHash")
    ELSE Done([c EXCEPT
            !.usedAadharHashes = @ \cup {aadharHash},
            !.voters[sender] = [nameHash |-> nameHash, aadharHash |-> aadharHash,
                                isVerified |-> FALSE, registrationTimestamp |-> ts,
                                lastVerifiedTimestamp |-> 0]],
            << <<"VoterRegistered", sender, nameHash, aadharHash, ts>> >>)

\* function registerVoter(bytes32 _nameHash, bytes32 _aadharHash)
VoterID_registerVoter(c, sender, nameHash, aadharHash, ts) ==
    IF ~c.registrationOpen THEN Revert(c, "RegistrationClosed")
    ELSE IF c.voters[sender].registrationTimestamp # 0 THEN Revert(c, "AlreadyRegistered")
    ELSE IF aadharHash \in c.usedAadharHashes THEN Revert(c, "AadharAlreadyRegistered")
    ELSE IF nameHash = ZeroHash THEN Revert(c, "EmptyHash")
    ELSE IF aadharHash = ZeroHash THEN Revert(c, "EmptyHash")
    ELSE Done([c EXCEPT
            !.usedAadharHashes = @ \cup {aadharHash},
            !.voters[sender] = [nameHash |-> nameHash, aadharHash |-> aadharHash,
                                isVerified |-> FALSE, registrationTimestamp |-> ts,
                                lastVerifiedTimestamp |-> 0],
            !.voterCount = @ + 1],
            << <<"VoterRegistered", sender, nameHash, aadharHash, ts>> >>)

\* A registerVoterByAdmin without the usedAadharHashes check.
VoterID_registerVoterByAdmin_NoAadharCheck(c, sender, voterAddress, nameHash, aadharHash, ts) ==
    IF sender # c.admin THEN Revert(c, "NotAdmin")
    ELSE IF ~c.registrationOpen THEN Revert(c, "RegistrationClosed")
    ELSE IF c.voters[voterAddress].registrationTimestamp # 0 THEN Revert(c, "AlreadyRegistered")
    ELSE IF nameHash = ZeroHash THEN Revert(c, "EmptyHash")
    ELSE IF aadharHash = ZeroHash THEN Revert(c, "EmptyHash")
    ELSE IF voterAddress = ZeroAddress THEN Revert(c, "InvalidAddress")
    ELSE Done([c EXCEPT
            !.usedAadharHashes = @ \cup {aadharHash},
            !.voters[voterAddress] = [nameHash |-> nameHash, aadharHash |-> aadharHash,
                                      isVerified |-> FALSE, registrationTimestamp |-> ts,
                                      lastVerifiedTimestamp |-> 0],
            !.voterCount = @ + 1],
            << <<"VoterRegistered", voterAddress, nameHash, aadharHash, ts>> >>)

\* function registerVoterByAdmin(address, bytes32, bytes32) onlyAdmin
VoterID_registerVoterByAdmin(c, sender, voterAddress, nameHash, aadharHash, ts) ==
    IF sender # c.admin THEN Revert(c, "NotAdmin")
    ELSE IF ~c.registrationOpen THEN Revert(c, "RegistrationClosed")
    ELSE IF c.voters[voterAddress].registrationTimestamp # 0 THEN Revert(c, "AlreadyRegistered")
    ELSE IF aadharHash \in c.usedAadharHashes THEN Revert(c, "AadharAlreadyRegistered")
    ELSE IF nameHash = ZeroHash THEN Revert(c, "EmptyHash")
    ELSE IF aadharHash = ZeroHash THEN Revert(c, "EmptyHash")
    ELSE IF voterAddress = ZeroAddress THEN Revert(c, "InvalidAddress")
    ELSE Done([c EXCEPT
            !.usedAadharHashes = @ \cup {aadharHash},
            !.voters[voterAddress] = [nameHash |-> nameHash, aadharHash |-> aadharHash,
                                      isVerified |-> FALSE, registrationTimestamp |-> ts,
                                      lastVerifiedTimestamp |-> 0],
            !.voterCount = @ + 1],
            << <<"VoterRegistered", voterAddress, nameHash, aadharHash, ts>> >>)

\* A verifyVoter that accepts a voter who is already verified.
VoterID_verifyVoter_Repeatable(c, sender, voter, ts) ==
    IF sender # c.admin THEN Revert(c, "NotAdmin")
    ELSE IF c.voters[voter].registrationTimestamp = 0 THEN Revert(c, "VoterNotRegistered")
    ELSE Done([c EXCEPT !.voters[voter].isVerified = TRUE,
                        !.voters[voter].lastVerifiedTimestamp = ts],
              << <<"VoterVerified", voter, ts>> >>)

\* function verifyVoter(address _voter) onlyAdmin
VoterID_verifyVoter(c, sender, voter, ts) ==
    IF sender # c.admin THEN Revert(c, "NotAdmin")
    ELSE IF c.voters[voter].registrationTimestamp = 0 THEN Revert(c, "VoterNotRegistered")
    ELSE IF c.voters[voter].isVerified THEN Revert(c, "VoterAlreadyVerified")
    ELSE Done([c EXCEPT !.voters[voter].isVerified = TRUE,
                        !.voters[voter].lastVerifiedTimestamp = ts],
              << <<"VoterVerified", voter, ts>> >>)

\* A setRegistrationStatus without the onlyAdmin modifier.
VoterID_setRegistrationStatus_Anyone(c, sender, isOpen) ==
    Done([c EXCEPT !.registrationOpen = isOpen],
         << <<"RegistrationStatusChanged", isOpen>> >>)

\* function setRegistrationStatus(bool _isOpen) onlyAdmin
VoterID_setRegistrationStatus(c, sender, isOpen) ==
    IF sender # c.admin THEN Revert(c, "NotAdmin")
    ELSE Done([c EXCEPT !.registrationOpen = isOpen],
              << <<"RegistrationStatusChanged", isOpen>> >>)

\* A transferAdmin without the zero-address check.
VoterID_transferAdmin_Unchecked(c, sender, newAdmin) ==
    IF sender # c.admin THEN Revert(c, "NotAdmin")
    ELSE Done([c EXCEPT !.admin = newAdmin], << >>)

\* function transferAdmin(address _newAdmin) onlyAdmin
VoterID_transferAdmin(c, sender, newAdmin) ==
    IF sender # c.admin THEN Revert(c, "NotAdmin")
    ELSE IF newAdmin = ZeroAddress THEN Revert(c, "InvalidAddress")
    ELSE Done([c EXCEPT !.admin = newAdmin], << >>)

\* function checkVoterStatus(address _voter) view
VoterID_checkVoterStatus_Registered(c, voter) == c.voters[voter].registrationTimestamp # 0

VoterID_checkVoterStatus(c, voter) == c.voters[voter].isVerified

\* The contract state after a call.
ContractBecomes(c) ==
    /\ voters' = c.voters
    /\ usedAadharHashes' = c.usedAadharHashes
    /\ admin' = c.admin
    /\ voterCount' = c.voterCount
    /\ registrationOpen' = c.registrationOpen

\* ------------------------------------------------- utils/blockchain.js
\* What the environment does to a submitted transaction:
\*   down         the provider or signer is unavailable, the call throws
\*   mined        the transaction is mined and tx.wait() answers (a receipt, or
\*                a CALL_EXCEPTION carrying the receipt of a reverted call)
\*   lost_mined   tx.wait() fails without a receipt, the transaction is mined
\*   lost_dropped tx.wait() fails without a receipt, the transaction never lands
LedgerOutcomes == {"down", "mined", "lost_mined", "lost_dropped"}

TxHash(kind, addr) == "0xtx:" \o kind \o ":" \o addr

NoResult == [threw |-> FALSE, sent |-> FALSE, hash |-> NULL, status |-> "none"]
Threw == [threw |-> TRUE, sent |-> FALSE, hash |-> NULL, status |-> "none"]

\* The result of a sent transaction: the receipt (status 1 or 0) that tx.wait()
\* returned or that the wait error carried, else {hash, success: false}.
TxResult(kind, addr, outcome, call) ==
    LET status == IF outcome = "mined" THEN (IF call.ok THEN "1" ELSE "0") ELSE "unknown"
    IN  [threw |-> FALSE, sent |-> TRUE, hash |-> TxHash(kind, addr), status |-> status]

\* A ledger registration that hands the two hashes over in the other order.
Chain_registerVoter_Swapped(c, nameHash, aadharHash, voterAddress, outcome, ts) ==
    IF nameHash = NULL \/ aadharHash = NULL \/ outcome = "down"
    THEN [res |-> Threw, st |-> c]
    ELSE LET call == IF voterAddress # NULL /\ voterAddress # SIGNER
                     THEN VoterID_registerVoterByAdmin(c, SIGNER, voterAddress, aadharHash, nameHash, ts)
                     ELSE VoterID_registerVoter(c, SIGNER, aadharHash, nameHash, ts)
         IN  [res |-> TxResult("register", voterAddress, outcome, call),
              st |-> IF outcome = "lost_dropped" THEN c ELSE call.st]

\* registerVoter(nameHash, aadharHash, voterAddress) of utils/blockchain.js.
Chain_registerVoter(c, nameHash, aadharHash, voterAddress, outcome, ts) ==
    IF nameHash = NULL \/ aadharHash = NULL \/ outcome = "down"
    THEN [res |-> Threw, st |-> c]
    ELSE LET call == IF voterAddress # NULL /\ voterAddress # SIGNER
                     THEN VoterID_registerVoterByAdmin(c, SIGNER, voterAddress, nameHash, aadharHash, ts)
                     ELSE VoterID_registerVoter(c, SIGNER, nameHash, aadharHash, ts)
         IN  [res |-> TxResult("register", voterAddress, outcome, call),
              st |-> IF outcome = "lost_dropped" THEN c ELSE call.st]

\* verifyVoter(voterAddress) of utils/blockchain.js.
Chain_verifyVoter(c, voterAddress, outcome, ts) ==
    IF voterAddress = NULL \/ outcome = "down"
    THEN [res |-> Threw, st |-> c]
    ELSE LET call == VoterID_verifyVoter(c, SIGNER, voterAddress, ts)
         IN  [res |-> TxResult("verify", voterAddress, outcome, call),
              st |-> IF outcome = "lost_dropped" THEN c ELSE call.st]

\* ----------------------------------------------------- encryption helpers
ENCRYPTION_KEY == "encryption_key"
\* crypto.randomBytes(16): the value is read by no decision of the program.
Ivs == {"iv1"}

\* A JavaScript string is <<"text", characters>>, or <<"json", value>> when it
\* is the JSON.stringify of an object; a number, boolean or null is
\* <<type, literal>> and the empty object is << >>.
Text(characters) == <<"text", characters>>
JSON_stringify(value) == <<"json", value>>

JsonLiterals ==
    [literal \in {"123", "true", "null", "{}"} |->
        CASE literal = "123" -> <<"number", "123">>
          [] literal = "true" -> <<"boolean", "true">>
          [] literal = "null" -> <<"null", "null">>
          [] literal = "{}" -> << >>]

\* Whether JSON.parse(text) returns rather than throws.
IsJson(text) == text[1] = "json" \/ text[2] \in DOMAIN JsonLiterals
JSON_parse(text) == IF text[1] = "json" THEN text[2] ELSE JsonLiterals[text[2]]

\* encrypt(data): aes-256-cbc under the padded ENCRYPTION_KEY and a fresh iv
\* (the catch with its base64 fallback is reached only with a key whose byte
\* length is not 32, which the configuration modelled here does not have).
encrypt(data, iv) ==
    [iv |-> iv, encryptedData |-> <<"aes-256-cbc", ENCRYPTION_KEY, iv, data>>]

\* What deciphering yields when the iv is not the one of the encryption.
Garbled == Text("garbled")

\* try { JSON.parse(s) } catch { s }
ParsedOrAsIs(text) == IF IsJson(text) THEN JSON_parse(text) ELSE text

\* decrypt(encryptedObj): with iv "fallback" the base64-decoded data; else the
\* deciphered plaintext; either is returned parsed when it is JSON and as it is
\* otherwise. A deciphering error (wrong key, broken padding) returns {}.
decrypt(encryptedObj) ==
    LET c == encryptedObj.encryptedData
    IN  IF encryptedObj.iv = "fallback"
        THEN ParsedOrAsIs(IF c[1] = "base64" THEN c[2] ELSE Garbled)
        ELSE IF c[1] = "aes-256-cbc" /\ c[2] = ENCRYPTION_KEY /\ Len(c) = 4
        THEN ParsedOrAsIs(IF c[3] = encryptedObj.iv THEN c[4] ELSE Garbled)
        ELSE << >>

sensitiveFields ==
    {"name", "gender", "dob", "city", "state", "aadharNumber", "phoneNumber", "email"}

\* encryptSensitiveData(userData): the listed fields that are present, encrypted
\* as one JSON object.
encryptSensitiveData(userData, iv) ==
    LET present == {field \in sensitiveFields \cap DOMAIN userData : userData[field] # NULL}
        dataToEncrypt == [field \in present |-> userData[field]]
        encrypted == encrypt(JSON_stringify(dataToEncrypt), iv)
    IN  [data |-> encrypted.encryptedData, iv |-> encrypted.iv]

decryptSensitiveData(encryptedData) ==
    decrypt([iv |-> encryptedData.iv, encryptedData |-> encryptedData.data])

\* scryptSync(ENCRYPTION_KEY + aadharNumber, 'salt', 32)
RecordKey(aadharNumber) == "scrypt(" \o ENCRYPTION_KEY \o aadharNumber \o ")"

\* encryptPrivateKey(privateKey, aadharNumber): createCipher derives key and iv
\* from the record key; the random iv is returned and not used.
encryptPrivateKey(privateKey, aadharNumber, iv) ==
    [encrypted |-> <<"aes-256-cbc", RecordKey(aadharNumber), privateKey>>, iv |-> iv]

\* decryptPrivateKey(encryptedData, aadharNumber)
decryptPrivateKey(encryptedData, aadharNumber) ==
    IF encryptedData.encrypted[2] = RecordKey(aadharNumber)
    THEN encryptedData.encrypted[3]
    ELSE "Failed to decrypt private key"

\* ------------------------------------------------------ models/Voter.js
\* The qrCode nested path of a new document: only the default isActive: true
\* (firebaseUrl, fileName and generatedAt are read by no handler modelled here).
DefaultQrCode ==
    [nameHash |-> NULL, aadharHash |-> NULL, txHash |-> NULL,
     expiresAt |-> 0, isActive |-> TRUE]

\* new Voter({...}): the schema defaults of every path the caller leaves out.
NewVoter(blockchainAddress, encryptedData, name, aadharNumber, blockchain) ==
    [blockchainAddress |-> blockchainAddress,
     encryptedData |-> encryptedData,
     rawData |-> [name |-> name, aadharNumber |-> aadharNumber],
     blockchain |-> blockchain,
     isVerified |-> FALSE, verificationDate |-> 0, verifiedBy |-> NULL,
     qrCode |-> DefaultQrCode,
     isVoted |-> FALSE, votingDate |-> 0]

\* Voter.findOne(filter), given the positions of the documents that match the
\* filter: the first one in natural order (a position stands for an _id), 0
\* when there is none.
FindOne(hits) ==
    IF hits = {} THEN 0 ELSE CHOOSE i \in hits : \A j \in hits : i <= j

ByAadhar(a) == FindOne({i \in DOMAIN voterDocs : voterDocs[i].rawData.aadharNumber = a})
\* A lookup by address that leaves the isVerified filter out.
ByAddressVerified_Any(addr) ==
    FindOne({i \in DOMAIN voterDocs : voterDocs[i].blockchainAddress = addr})

ByAddressVerified(addr) ==
    FindOne({i \in DOMAIN voterDocs : voterDocs[i].blockchainAddress = addr /\ voterDocs[i].isVerified})
ByAddress(addr) == FindOne({i \in DOMAIN voterDocs : voterDocs[i].blockchainAddress = addr})

\* ------------------------------------------------ services/qrCodeService
InvalidDate == -1
NoPayload ==
    [raw |-> "absent", nameHash |-> NULL, aadharHash |-> NULL, txHash |-> NULL,
     voterAddress |-> NULL, verificationDate |-> 0, expiresAt |-> 0, systemId |-> NULL]

Or(a, b) == IF a # NULL THEN a ELSE b

\* generateQRCodeForVoter(voterData, expirationMinutes) up to the upload: the
\* payload, or the 'Missing nameHash or aadharHash' error.
generateQRCodeForVoter(voterData, expirationMinutes, t) ==
    LET bc == voterData.blockchain
        nameHash == IF bc # None THEN Or(bc[1].nameHash, voterData.nameHash) ELSE voterData.nameHash
        aadharHash == IF bc # None THEN Or(bc[1].aadharHash, voterData.aadharHash) ELSE voterData.aadharHash
        txHash == IF bc # None THEN Or(bc[1].txHash, voterData.txHash) ELSE voterData.txHash
    IN  IF nameHash = NULL \/ aadharHash = NULL
        THEN [ok |-> FALSE, qrData |-> NoPayload]
        ELSE [ok |-> TRUE,
              qrData |-> [raw |-> "json", nameHash |-> nameHash, aadharHash |-> aadharHash,
                          txHash |-> Or(txHash, "manual_verification"),
                          voterAddress |-> Or(voterData.blockchainAddress, voterData.voterAddress),
                          verificationDate |-> t, expiresAt |-> t + expirationMinutes,
                          systemId |-> SYSTEM_ID]]

\* verifyQRCode(qrDataString): JSON.parse, the required fields, the system id
\* and the expiry (now > expiresAt; an unparseable date compares false).
verifyQRCode(qrData, t) ==
    IF qrData.raw # "json" THEN [valid |-> FALSE, error |-> "Invalid QR code format"]
    ELSE IF \/ qrData.nameHash = NULL \/ qrData.aadharHash = NULL \/ qrData.txHash = NULL
            \/ qrData.voterAddress = NULL \/ qrData.systemId = NULL \/ qrData.expiresAt = 0
    THEN [valid |-> FALSE, error |-> "Missing required fields"]
    ELSE IF qrData.systemId # SYSTEM_ID THEN [valid |-> FALSE, error |-> "Invalid system ID"]
    ELSE IF qrData.expiresAt # InvalidDate /\ t > qrData.expiresAt
    THEN [valid |-> FALSE, error |-> "QR code has expired"]
    ELSE [valid |-> TRUE, error |-> ""]

AadharHashes == {createHash(a) : a \in Aadhars}

\* ---------------------------------------------------------------- requests
Ttls == {1, 2}
AdminHeaders == {ADMIN_ADDRESS, MALLORY}

IdleLoc ==
    [op |-> "none", aadhar |-> NULL, name |-> NULL, addr |-> NULL, adminAddress |-> NULL,
     payload |-> NoPayload, ttl |-> 0, doc |-> 0, chain |-> NoResult, qr |-> NoPayload,
     funding |-> NULL]

NoResp ==
    [op |-> "none", status |-> 0, error |-> "", aadhar |-> NULL, addr |-> NULL,
     payload |-> NoPayload, chain |-> NoResult, onBlockchain |-> FALSE,
     sender |-> NULL, events |-> << >>, details |-> "", isVerified |-> FALSE, source |-> ""]

Response(op, status, error) == [NoResp EXCEPT !.op = op, !.status = status, !.error = error]

\* The handlers that may run concurrently with one another under a workload;
\* every other request is served alone.
Overlap ==
    CASE workload = "sequential" -> {}
      [] workload = "redeem" -> {"processVoting"}
      [] workload = "register" -> {"registerVoter", "registerVoterWithAadhar"}
      [] workload = "verify" -> {"verifyVoter", "verifyVoterByAadhar"}
      [] OTHER -> {}

Others(p) == Procs \ {p}
Alone(p) == \A q \in Others(p) : pc[q] = "idle"

NoneAnswered == \A q \in Procs : resp[q] = NoResp

\* A request arrives once the responses of the previous batch were collected;
\* the second slot is used only for a request that overlaps the first.
CanStart(p, op) ==
    /\ pc[p] = "idle"
    /\ NoneAnswered
    /\ \A q \in Others(p) : pc[q] = "idle" \/ (op \in Overlap /\ loc[q].op \in Overlap)
    /\ p = "p1" \/ ~Alone(p)

\* A request answered in its first step.
ReplyAtOnce(p, r) ==
    /\ resp' = [resp EXCEPT ![p] = r]
    /\ UNCHANGED <<pc, loc>>

\* A request that goes on to its next await.
Proceed(p, next, l) ==
    /\ pc' = [pc EXCEPT ![p] = next]
    /\ loc' = [loc EXCEPT ![p] = l]
    /\ UNCHANGED resp

\* A request answered after an await.
Reply(p, r) ==
    /\ pc' = [pc EXCEPT ![p] = "idle"]
    /\ loc' = [loc EXCEPT ![p] = IdleLoc]
    /\ resp' = [resp EXCEPT ![p] = r]

isAdmin_Anyone(providedAdmin) == providedAdmin # NULL

\* isAdmin middleware of routes/voters.js and routes/qrcode.js.
isAdmin(providedAdmin) == providedAdmin # NULL /\ providedAdmin = ADMIN_ADDRESS

\* No helper call in progress.
NoCall == [fn |-> "none", stage |-> "none"]

\* -------------------------------------------------------------------- Init
InitState ==
    /\ voters = [a \in AllAddrs \cup {ZeroAddress} |-> EmptyVoter]
    /\ usedAadharHashes = {}
    /\ admin = SIGNER
    /\ voterCount = 0
    /\ registrationOpen = TRUE
    /\ voterDocs = << >>
    /\ qrFiles = [h \in AadharHashes |-> None]
    /\ issued = {}
    /\ now = 1
    /\ pc = [p \in Procs |-> "idle"]
    /\ loc = [p \in Procs |-> IdleLoc]
    /\ resp = [p \in Procs |-> NoResp]
    /\ helperCall = NoCall

\* The wallets at the start: the master wallet holds MasterFunds funding amounts,
\* or nothing at all (fundWallet then skips every funding).
Wallet(funds) == [a \in {MASTER} \cup DerivedAddrs |-> IF a = MASTER THEN funds ELSE 0]
Funded == balances = Wallet(MasterFunds)
Unfunded == balances = Wallet(0)

Init == InitState /\ workload = "sequential" /\ Funded
InitRedeem == InitState /\ workload = "redeem" /\ Unfunded
InitRegister == InitState /\ workload = "register" /\ Funded

Registering == {"rv_chain", "rv_save", "ra_fund", "ra_chain", "ra_save"}
Issuing == {"gq_upload", "gq_save"}
InFlight(positions) == Cardinality({q \in Procs : pc[q] \in positions})

\* The clients read the responses of a finished batch of requests.
Collect ==
    /\ \A q \in Procs : pc[q] = "idle"
    /\ ~NoneAnswered
    /\ resp' = [q \in Procs |-> NoResp]
    /\ UNCHANGED <<chainVars, voterDocs, qrFiles, issued, now, pc, loc, workload, helperCall, balances>>

Tick ==
    /\ NoneAnswered
    /\ now < MaxTime
    /\ now' = now + 1
    /\ UNCHANGED <<chainVars, voterDocs, qrFiles, issued, pc, loc, resp, workload, helperCall, balances>>

\* ------------------------------------------- registerVoter (wallet-based)
\* Hashes, then Voter.findOne({$or: [{blockchainAddress}, {rawData.aadharNumber}]}).
RegisterVoter_Find(p) ==
    \E name \in Names, a \in Aadhars, addr \in ReqAddrs :
        /\ CanStart(p, "registerVoter")
        /\ Len(voterDocs) + InFlight(Registering) < MaxDocs
        /\ LET existingVoter == FindOne({i \in DOMAIN voterDocs :
                                            \/ voterDocs[i].blockchainAddress = addr
                                            \/ voterDocs[i].rawData.aadharNumber = a})
           IN  IF existingVoter # 0
               THEN ReplyAtOnce(p, [Response("registerVoter", 400, "Voter already registered")
                                     EXCEPT !.aadhar = a, !.addr = addr])
               ELSE Proceed(p, "rv_chain", [IdleLoc EXCEPT !.op = "registerVoter", !.name = name,
                                                          !.aadhar = a, !.addr = addr])
        /\ UNCHANGED <<chainVars, voterDocs, qrFiles, issued, now, workload, helperCall, balances>>

\* registerVoterOnBlockchain inside try/catch: a throw leaves blockchainResult null.
RegisterVoter_Chain(p) ==
    \E outcome \in LedgerOutcomes :
        /\ pc[p] = "rv_chain"
        /\ LET h == createBlockchainHashes(loc[p].name, loc[p].aadhar)
               r == Chain_registerVoter(Contract, h.nameHash, h.aadharHash, loc[p].addr, outcome, now)
           IN  /\ ContractBecomes(r.st)
               /\ Proceed(p, "rv_save", [loc[p] EXCEPT !.chain = r.res])
        /\ UNCHANGED <<voterDocs, qrFiles, issued, now, workload, helperCall, balances>>

\* error.message of a rejected voter.save(), the details of the 500 answer.
StoreError == "voter.save() failed"

RegisterVoter_Save_Abort(p) ==
    /\ pc[p] = "rv_save"
    /\ loc[p].chain.threw
    /\ Reply(p, [Response("registerVoter", 500, "Registration failed") EXCEPT
                    !.aadhar = loc[p].aadhar, !.addr = loc[p].addr,
                    !.details = "Blockchain registration failed"])
    /\ UNCHANGED <<chainVars, voterDocs, qrFiles, issued, now, workload, helperCall, balances>>

\* new Voter({... blockchain: blockchainResult ? {...} : null}).save(), then 201;
\* a failed save (store down, validation) answers 500.
RegisterVoter_Save(p) ==
    \E dbOk \in BOOLEAN, iv \in Ivs :
        /\ pc[p] = "rv_save"
        /\ LET h == createBlockchainHashes(loc[p].name, loc[p].aadhar)
               blockchainResult == loc[p].chain
               encryptedData == encryptSensitiveData(
                                    [name |-> loc[p].name, aadharNumber |-> loc[p].aadhar,
                                     phoneNumber |-> NULL, email |-> NULL], iv)
               blockchain == IF blockchainResult.threw THEN None
                             ELSE Some([nameHash |-> h.nameHash, aadharHash |-> h.aadharHash,
                                        txHash |-> blockchainResult.hash])
           IN  IF dbOk
               THEN /\ voterDocs' = Append(voterDocs, NewVoter(loc[p].addr, encryptedData,
                                                               loc[p].name, loc[p].aadhar,
                                                               blockchain))
                    /\ Reply(p, [Response("registerVoter", 201, "") EXCEPT
                                    !.aadhar = loc[p].aadhar, !.addr = loc[p].addr,
                                    !.chain = blockchainResult,
                                    !.onBlockchain = ~blockchainResult.threw])
               ELSE /\ UNCHANGED voterDocs
                    /\ Reply(p, [Response("registerVoter", 500, "Registration failed") EXCEPT
                                    !.aadhar = loc[p].aadhar, !.addr = loc[p].addr,
                                    !.chain = blockchainResult, !.details = StoreError])
        /\ UNCHANGED <<chainVars, qrFiles, issued, now, workload, helperCall, balances>>

\* ------------------------------------------------ registerVoterWithAadhar
\* walletService.fundWallet: null when the master balance is below the funding
\* amount or the transfer throws, else one funding amount moves from the master
\* wallet to the address and the transfer's hash is returned. The balance is
\* counted in funding amounts; the gas of the transfer is left out.
fundWallet(b, address, mined) ==
    IF b[MASTER] < 1 \/ ~mined
    THEN [balances |-> b, hash |-> NULL]
    ELSE [balances |-> [b EXCEPT ![MASTER] = @ - 1, ![address] = @ + 1],
          hash |-> TxHash("fund", address)]

\* A registration that funds the derived wallet before it looks the voter up.
RegisterAadhar_Find_FundFirst(p) ==
    \E name \in Names, a \in Aadhars :
        /\ CanStart(p, "registerVoterWithAadhar")
        /\ Len(voterDocs) + InFlight(Registering) < MaxDocs
        /\ balances' = fundWallet(balances, generateWalletFromAadhar(a).address, TRUE).balances
        /\ IF ByAadhar(a) # 0
           THEN ReplyAtOnce(p, [Response("registerVoterWithAadhar", 400,
                                         "Voter already registered with this Aadhar number")
                                 EXCEPT !.aadhar = a])
           ELSE Proceed(p, "ra_chain", [IdleLoc EXCEPT !.op = "registerVoterWithAadhar",
                                           !.name = name, !.aadhar = a,
                                           !.addr = generateWalletFromAadhar(a).address])
        /\ UNCHANGED <<chainVars, voterDocs, qrFiles, issued, now, workload, helperCall>>

\* Validation, then Voter.findOne({rawData.aadharNumber}).
RegisterAadhar_Find(p) ==
    \E name \in Names, a \in Aadhars :
        /\ CanStart(p, "registerVoterWithAadhar")
        /\ Len(voterDocs) + InFlight(Registering) < MaxDocs
        /\ IF ByAadhar(a) # 0
           THEN ReplyAtOnce(p, [Response("registerVoterWithAadhar", 400,
                                         "Voter already registered with this Aadhar number")
                                 EXCEPT !.aadhar = a])
           ELSE Proceed(p, "ra_fund", [IdleLoc EXCEPT !.op = "registerVoterWithAadhar",
                                          !.name = name, !.aadhar = a,
                                          !.addr = generateWalletFromAadhar(a).address])
        /\ UNCHANGED <<chainVars, voterDocs, qrFiles, issued, now, workload, helperCall, balances>>

RegisterAadhar_Fund(p) ==
    \E mined \in BOOLEAN :
        /\ pc[p] = "ra_fund"
        /\ LET r == fundWallet(balances, loc[p].addr, mined)
           IN  /\ balances' = r.balances
               /\ Proceed(p, "ra_chain", [loc[p] EXCEPT !.funding = r.hash])
        /\ UNCHANGED <<chainVars, voterDocs, qrFiles, issued, now, workload, helperCall>>

RegisterAadhar_Chain(p) ==
    \E outcome \in LedgerOutcomes :
        /\ pc[p] = "ra_chain"
        /\ LET h == createBlockchainHashes(loc[p].name, loc[p].aadhar)
               r == Chain_registerVoter(Contract, h.nameHash, h.aadharHash, loc[p].addr, outcome, now)
           IN  /\ ContractBecomes(r.st)
               /\ Proceed(p, "ra_save", [loc[p] EXCEPT !.chain = r.res])
        /\ UNCHANGED <<voterDocs, qrFiles, issued, now, workload, helperCall, balances>>

\* blockchain: {nameHash, aadharHash: keccak256(aadhar), txHash: hash || null};
\* the 201 carries blockchainTxHash: hash || null (onBlockchain here).
RegisterAadhar_Save(p) ==
    \E dbOk \in BOOLEAN, iv \in Ivs :
        /\ pc[p] = "ra_save"
        /\ LET h == createBlockchainHashes(loc[p].name, loc[p].aadhar)
               blockchainResult == loc[p].chain
               walletData == generateWalletFromAadhar(loc[p].aadhar)
               encryptedData == encryptSensitiveData(
                                    [name |-> loc[p].name, aadharNumber |-> loc[p].aadhar,
                                     phoneNumber |-> NULL, email |-> NULL, dob |-> NULL,
                                     walletAbstraction |->
                                         [encryptedPrivateKey |->
                                              encryptPrivateKey(walletData.privateKey,
                                                                loc[p].aadhar, iv),
                                          fundingTxHash |-> loc[p].funding]], iv)
               blockchain == Some([nameHash |-> h.nameHash,
                                   aadharHash |-> createHash(loc[p].aadhar),
                                   txHash |-> blockchainResult.hash])
           IN  IF dbOk
               THEN /\ voterDocs' = Append(voterDocs, NewVoter(loc[p].addr, encryptedData,
                                                               loc[p].name, loc[p].aadhar,
                                                               blockchain))
                    /\ Reply(p, [Response("registerVoterWithAadhar", 201, "") EXCEPT
                                    !.aadhar = loc[p].aadhar, !.addr = loc[p].addr,
                                    !.chain = blockchainResult,
                                    !.onBlockchain = ~blockchainResult.threw])
               ELSE /\ UNCHANGED voterDocs
                    /\ Reply(p, [Response("registerVoterWithAadhar", 500, "Registration failed")
                                    EXCEPT !.aadhar = loc[p].aadhar, !.addr = loc[p].addr,
                                           !.chain = blockchainResult, !.details = StoreError])
        /\ UNCHANGED <<chainVars, qrFiles, issued, now, workload, helperCall, balances>>

\* ------------------------------------------------------------ verifyVoter
DEFAULT_EXPIRATION == 30

\* voter.qrCode = {...} after a QR generation of verifyVoter / verifyVoterByAadhar.
QrCodeOfVerify(qrData) ==
    [nameHash |-> qrData.nameHash, aadharHash |-> qrData.aadharHash, txHash |-> qrData.txHash,
     expiresAt |-> 0, isActive |-> TRUE]

\* The admin check, then verifyVoterOnBlockchain inside try/catch.
VerifyVoter_Chain(p) ==
    \E adminAddress \in AdminHeaders, voterAddress \in ReqAddrs, outcome \in LedgerOutcomes :
        /\ CanStart(p, "verifyVoter")
        /\ IF adminAddress # ADMIN_ADDRESS
           THEN /\ ReplyAtOnce(p, [Response("verifyVoter", 403, "Unauthorized. Not an admin address.")
                                    EXCEPT !.addr = voterAddress])
                /\ UNCHANGED chainVars
           ELSE LET r == Chain_verifyVoter(Contract, voterAddress, outcome, now)
                IN  /\ ContractBecomes(r.st)
                    /\ Proceed(p, "vv_find", [IdleLoc EXCEPT !.op = "verifyVoter",
                                                 !.adminAddress = adminAddress,
                                                 !.addr = voterAddress, !.chain = r.res])
        /\ UNCHANGED <<voterDocs, qrFiles, issued, now, workload, helperCall, balances>>

\* Voter.findOne({blockchainAddress}), 404 when absent.
VerifyVoter_Find(p) ==
    /\ pc[p] = "vv_find"
    /\ LET i == ByAddress(loc[p].addr)
       IN  IF i = 0
           THEN Reply(p, [Response("verifyVoter", 404, "Voter not found") EXCEPT
                             !.addr = loc[p].addr, !.chain = loc[p].chain])
           ELSE Proceed(p, "vv_save", [loc[p] EXCEPT !.doc = i])
    /\ UNCHANGED <<chainVars, voterDocs, qrFiles, issued, now, workload, helperCall, balances>>

\* generateQRCodeForVoter({name, aadharNumber, txHash, voterAddress}) inside
\* try/catch, the four fields, voter.save(), logAdminActivity, the response.
VerifyVoter_Save(p) ==
    \E dbOk \in BOOLEAN, storageOk \in BOOLEAN, logOk \in BOOLEAN :
        /\ pc[p] = "vv_save"
        /\ LET i == loc[p].doc
               qrResult == generateQRCodeForVoter(
                               [blockchain |-> None, nameHash |-> NULL, aadharHash |-> NULL,
                                txHash |-> Or(loc[p].chain.hash, "manual_verification"),
                                blockchainAddress |-> NULL, voterAddress |-> loc[p].addr],
                               DEFAULT_EXPIRATION, now)
               uploaded == qrResult.ok /\ storageOk
               r == [Response("verifyVoter", 200, "") EXCEPT !.addr = loc[p].addr,
                                                             !.chain = loc[p].chain]
           IN  /\ IF uploaded
                  THEN /\ qrFiles' = [qrFiles EXCEPT ![qrResult.qrData.aadharHash] = Some(qrResult.qrData)]
                       /\ issued' = issued \cup {qrResult.qrData}
                  ELSE UNCHANGED <<qrFiles, issued>>
               /\ IF dbOk
                  THEN /\ voterDocs' = [voterDocs EXCEPT
                              ![i].qrCode = IF uploaded THEN QrCodeOfVerify(qrResult.qrData) ELSE @,
                              ![i].isVerified = TRUE,
                              ![i].verificationDate = now,
                              ![i].verifiedBy = loc[p].adminAddress]
                       /\ Reply(p, IF logOk THEN [r EXCEPT !.payload = IF uploaded THEN qrResult.qrData ELSE NoPayload]
                                   ELSE [r EXCEPT !.status = 500, !.error = "Verification failed"])
                  ELSE /\ UNCHANGED voterDocs
                       /\ Reply(p, [r EXCEPT !.status = 500, !.error = "Verification failed"])
        /\ UNCHANGED <<chainVars, now, workload, helperCall, balances>>

\* ----------------------------------------------------- verifyVoterByAadhar
\* isAdmin, Voter.findOne({rawData.aadharNumber}), 404, 'Voter already verified'.
VerifyAadhar_Find(p) ==
    \E adminAddress \in AdminHeaders, a \in Aadhars :
        /\ CanStart(p, "verifyVoterByAadhar")
        /\ LET i == ByAadhar(a)
               r(status, error) == [Response("verifyVoterByAadhar", status, error) EXCEPT !.aadhar = a]
           IN  IF ~isAdmin(adminAddress) THEN ReplyAtOnce(p, r(403, "Unauthorized access"))
               ELSE IF i = 0 THEN ReplyAtOnce(p, r(404, "Voter not found"))
               ELSE IF voterDocs[i].isVerified THEN ReplyAtOnce(p, r(400, "Voter already verified"))
               ELSE Proceed(p, "va_save", [IdleLoc EXCEPT !.op = "verifyVoterByAadhar",
                                              !.adminAddress = adminAddress, !.aadhar = a,
                                              !.addr = voterDocs[i].blockchainAddress, !.doc = i])
        /\ UNCHANGED <<chainVars, voterDocs, qrFiles, issued, now, workload, helperCall, balances>>

VerifyAadhar_Save(p) ==
    \E dbOk \in BOOLEAN, storageOk \in BOOLEAN, logOk \in BOOLEAN :
        /\ pc[p] = "va_save"
        /\ LET i == loc[p].doc
               qrResult == generateQRCodeForVoter(
                               [blockchain |-> None, nameHash |-> NULL, aadharHash |-> NULL,
                                txHash |-> "aadhar_verification",
                                blockchainAddress |-> NULL, voterAddress |-> loc[p].addr],
                               DEFAULT_EXPIRATION, now)
               uploaded == qrResult.ok /\ storageOk
               r == [Response("verifyVoterByAadhar", 200, "") EXCEPT !.addr = loc[p].addr,
                                                                     !.aadhar = loc[p].aadhar]
           IN  /\ IF uploaded
                  THEN /\ qrFiles' = [qrFiles EXCEPT ![qrResult.qrData.aadharHash] = Some(qrResult.qrData)]
                       /\ issued' = issued \cup {qrResult.qrData}
                  ELSE UNCHANGED <<qrFiles, issued>>
               /\ IF dbOk
                  THEN /\ voterDocs' = [voterDocs EXCEPT
                              ![i].qrCode = IF uploaded THEN QrCodeOfVerify(qrResult.qrData) ELSE @,
                              ![i].isVerified = TRUE,
                              ![i].verificationDate = now,
                              ![i].verifiedBy = loc[p].adminAddress]
                       /\ Reply(p, IF logOk THEN [r EXCEPT !.payload = IF uploaded THEN qrResult.qrData ELSE NoPayload]
                                   ELSE [r EXCEPT !.status = 500, !.error = "Verification failed"])
                  ELSE /\ UNCHANGED voterDocs
                       /\ Reply(p, [r EXCEPT !.status = 500, !.error = "Verification failed"])
        /\ UNCHANGED <<chainVars, now, workload, helperCall, balances>>

\* -------------------------------------------------------- generateVotingQR
\* isAdmin (the route), Voter.findOne({rawData.aadharNumber}), 404, the
\* isVerified check, the isVoted check.
GenerateVotingQR_Find(p) ==
    \E adminAddress \in AdminHeaders, a \in Aadhars, expirationMinutes \in Ttls :
        /\ CanStart(p, "generateVotingQR")
        /\ Cardinality(issued) + InFlight(Issuing) < MaxIssued
        /\ LET i == ByAadhar(a)
               r(status, error) == [Response("generateVotingQR", status, error) EXCEPT !.aadhar = a]
           IN  IF ~isAdmin(adminAddress) THEN ReplyAtOnce(p, r(403, "Unauthorized access"))
               ELSE IF i = 0 THEN ReplyAtOnce(p, r(404, "Voter not found"))
               ELSE IF ~voterDocs[i].isVerified THEN ReplyAtOnce(p, r(400, "Voter is not verified"))
               ELSE IF voterDocs[i].isVoted THEN ReplyAtOnce(p, r(400, "Voter has already voted"))
               ELSE Proceed(p, "gq_upload", [IdleLoc EXCEPT !.op = "generateVotingQR",
                                                !.adminAddress = adminAddress, !.aadhar = a,
                                                !.addr = voterDocs[i].blockchainAddress,
                                                !.ttl = expirationMinutes, !.doc = i])
        /\ UNCHANGED <<chainVars, voterDocs, qrFiles, issued, now, workload, helperCall, balances>>

\* qrCodeService.generateQRCodeForVoter({nameHash: voter.blockchain?.nameHash, ...},
\* expirationMinutes): the payload and its upload; a throw answers 500.
GenerateVotingQR_Upload(p) ==
    \E storageOk \in BOOLEAN :
        /\ pc[p] = "gq_upload"
        /\ LET voter == voterDocs[loc[p].doc]
               bc == voter.blockchain
               qrResult == generateQRCodeForVoter(
                               [blockchain |-> None,
                                nameHash |-> IF bc = None THEN NULL ELSE bc[1].nameHash,
                                aadharHash |-> IF bc = None THEN NULL ELSE bc[1].aadharHash,
                                txHash |-> IF bc = None THEN "voting_qr" ELSE Or(bc[1].txHash, "voting_qr"),
                                blockchainAddress |-> voter.blockchainAddress,
                                voterAddress |-> voter.blockchainAddress],
                               loc[p].ttl, now)
           IN  IF qrResult.ok /\ storageOk
               THEN /\ qrFiles' = [qrFiles EXCEPT ![qrResult.qrData.aadharHash] = Some(qrResult.qrData)]
                    /\ issued' = issued \cup {qrResult.qrData}
                    /\ Proceed(p, "gq_save", [loc[p] EXCEPT !.qr = qrResult.qrData])
               ELSE /\ UNCHANGED <<qrFiles, issued>>
                    /\ Reply(p, [Response("generateVotingQR", 500, "Failed to generate voting QR code")
                                    EXCEPT !.aadhar = loc[p].aadhar, !.addr = loc[p].addr])
        /\ UNCHANGED <<chainVars, voterDocs, now, workload, helperCall, balances>>

\* voter.qrCode = {..., expiresAt, isActive: true}; voter.save(); the response.
GenerateVotingQR_Save(p) ==
    \E dbOk \in BOOLEAN :
        /\ pc[p] = "gq_save"
        /\ LET i == loc[p].doc
               qrData == loc[p].qr
           IN  IF dbOk
               THEN /\ voterDocs' = [voterDocs EXCEPT ![i].qrCode =
                            [nameHash |-> qrData.nameHash, aadharHash |-> qrData.aadharHash,
                             txHash |-> qrData.txHash,
                             expiresAt |-> qrData.expiresAt, isActive |-> TRUE]]
                    /\ Reply(p, [Response("generateVotingQR", 200, "") EXCEPT
                                    !.aadhar = loc[p].aadhar, !.addr = loc[p].addr,
                                    !.payload = qrData])
               ELSE /\ UNCHANGED voterDocs
                    /\ Reply(p, [Response("generateVotingQR", 500, "Failed to generate voting QR code")
                                    EXCEPT !.aadhar = loc[p].aadhar, !.addr = loc[p].addr])
        /\ UNCHANGED <<chainVars, qrFiles, issued, now, workload, helperCall, balances>>

\* ---------------------------------------------- routes/qrcode.js handlers
\* POST /generate/:voterAddress: isAdmin, then the handler's first statement
\* reads Voter, which the file never requires: a ReferenceError, caught, 500.
QrRoute_Generate(p) ==
    \E adminAddress \in AdminHeaders, voterAddress \in ReqAddrs :
        /\ CanStart(p, "qrGenerate")
        /\ ReplyAtOnce(p, IF ~isAdmin(adminAddress)
                          THEN [Response("qrGenerate", 403, "Unauthorized access") EXCEPT !.addr = voterAddress]
                          ELSE [Response("qrGenerate", 500, "Failed to generate QR code") EXCEPT !.addr = voterAddress])
        /\ UNCHANGED <<chainVars, voterDocs, qrFiles, issued, now, workload, helperCall, balances>>

\* DELETE /aadhar/:aadharHash: isAdmin, deleteQRCodeByAadharHash (throws when the
\* object is absent or the storage is down), then the same ReferenceError.
QrRoute_Delete(p) ==
    \E adminAddress \in AdminHeaders, aadharHash \in AadharHashes, storageOk \in BOOLEAN :
        /\ CanStart(p, "qrDelete")
        /\ IF ~isAdmin(adminAddress)
           THEN /\ ReplyAtOnce(p, Response("qrDelete", 403, "Unauthorized access"))
                /\ UNCHANGED qrFiles
           ELSE /\ qrFiles' = IF storageOk /\ qrFiles[aadharHash] # None
                              THEN [qrFiles EXCEPT ![aadharHash] = None] ELSE qrFiles
                /\ ReplyAtOnce(p, Response("qrDelete", 500, "Failed to delete QR code"))
        /\ UNCHANGED <<chainVars, voterDocs, issued, now, workload, helperCall, balances>>

\* ----------------------------------- processVoteViaScan / processVoting
\* Payloads a caller can assemble without the issuer: any hashes, the public
\* system id, a chosen expiry, a voter's address.
Forged ==
    {[raw |-> "json", nameHash |-> "0xforged", aadharHash |-> "0xforged", txHash |-> "0xforged",
      voterAddress |-> a, verificationDate |-> 0, expiresAt |-> e, systemId |-> SYSTEM_ID] :
        a \in ReqAddrs, e \in {InvalidDate, 1, MaxTime + 1}}

Malformed ==
    LET f == CHOOSE x \in Forged : x.expiresAt # InvalidDate
    IN  {[f EXCEPT !.raw = "notjson"], [f EXCEPT !.txHash = NULL],
         [f EXCEPT !.systemId = "OTHER_SYSTEM"], NoPayload}

\* An issued payload whose expiresAt was rewritten by its holder.
Tampered == {[q EXCEPT !.expiresAt = MaxTime + 1] : q \in issued}

RedeemInputs == issued \cup Tampered \cup Forged \cup Malformed

\* processVoteViaScan's check of the body, verifyQRCode, then processVoting's
\* Voter.findOne({blockchainAddress, isVerified: true}) and the checks made on
\* the document read: the error answered, "" when the vote goes on to be saved.
RedeemError(qrData) ==
    LET verification == verifyQRCode(qrData, now)
        i == ByAddressVerified(qrData.voterAddress)
    IN  IF qrData.raw = "absent" THEN "QR data is required"
        ELSE IF ~verification.valid THEN verification.error
        ELSE IF i = 0 THEN "Voter not found or not verified"
        ELSE IF voterDocs[i].isVoted THEN "Voter has already voted"
        ELSE IF ~voterDocs[i].qrCode.isActive THEN "QR code is no longer active"
        ELSE ""

ProcessVoting_Find(p) ==
    \E qrData \in RedeemInputs :
        /\ CanStart(p, "processVoting")
        /\ LET error == RedeemError(qrData)
               i == ByAddressVerified(qrData.voterAddress)
           IN  IF error # ""
               THEN ReplyAtOnce(p, [Response("processVoting", 400, error) EXCEPT
                                       !.payload = qrData, !.addr = qrData.voterAddress])
               ELSE Proceed(p, "pv_save", [IdleLoc EXCEPT !.op = "processVoting", !.payload = qrData,
                                              !.addr = qrData.voterAddress, !.doc = i])
        /\ UNCHANGED <<chainVars, voterDocs, qrFiles, issued, now, workload, helperCall, balances>>

\* A redemption that leaves the consumed flag as it was.
MarkVoted_Unmarked(voter, t) ==
    [voter EXCEPT !.votingDate = t, !.qrCode.isActive = FALSE]

\* voter.isVoted = true; voter.votingDate = new Date(); voter.qrCode.isActive = false.
MarkVoted(voter, t) ==
    [voter EXCEPT !.isVoted = TRUE, !.votingDate = t, !.qrCode.isActive = FALSE]

\* A redemption whose failed save leaves the three assignments behind.
ProcessVoting_Save_Partial(p) ==
    \E dbOk \in BOOLEAN :
        /\ pc[p] = "pv_save"
        /\ LET i == loc[p].doc
           IN  /\ voterDocs' = [voterDocs EXCEPT ![i] = MarkVoted(@, now)]
               /\ Reply(p, [Response("processVoting", IF dbOk THEN 200 ELSE 400,
                                     IF dbOk THEN "" ELSE "Failed to process vote") EXCEPT
                               !.payload = loc[p].payload, !.addr = loc[p].addr])
        /\ UNCHANGED <<chainVars, qrFiles, issued, now, workload, helperCall, balances>>

\* The three assignments and voter.save(); a failed save is caught and answered
\* 'Failed to process vote'.
ProcessVoting_Save(p) ==
    \E dbOk \in BOOLEAN :
        /\ pc[p] = "pv_save"
        /\ LET i == loc[p].doc
           IN  IF dbOk
               THEN /\ voterDocs' = [voterDocs EXCEPT ![i] = MarkVoted(@, now)]
                    /\ Reply(p, [Response("processVoting", 200, "") EXCEPT
                                    !.payload = loc[p].payload, !.addr = loc[p].addr])
               ELSE /\ UNCHANGED voterDocs
                    /\ Reply(p, [Response("processVoting", 400, "Failed to process vote") EXCEPT
                                    !.payload = loc[p].payload, !.addr = loc[p].addr])
        /\ UNCHANGED <<chainVars, qrFiles, issued, now, workload, helperCall, balances>>

\* ---------------------------------------------- checkVoterStatusController
\* ethers.isAddress(address).
isAddress(address) == address \in AllAddrs \cup {ZeroAddress}
StatusAddrs == ReqAddrs \cup {"not-an-address"}

\* The address check, then Voter.findOne({blockchainAddress}): the document's
\* flag with source "database" when there is one.
CheckStatus_Find(p) ==
    \E address \in StatusAddrs, dbOk \in BOOLEAN :
        /\ CanStart(p, "checkVoterStatus")
        /\ LET r(status, error) == [Response("checkVoterStatus", status, error) EXCEPT !.addr = address]
               mongoVoter == ByAddress(address)
           IN  IF ~isAddress(address) THEN ReplyAtOnce(p, r(400, "Invalid Ethereum address"))
               ELSE IF ~dbOk THEN ReplyAtOnce(p, r(500, "Status check failed"))
               ELSE IF mongoVoter # 0
               THEN ReplyAtOnce(p, [r(200, "") EXCEPT !.isVerified = voterDocs[mongoVoter].isVerified,
                                                      !.source = "database"])
               ELSE Proceed(p, "cs_chain", [IdleLoc EXCEPT !.op = "checkVoterStatus", !.addr = address])
        /\ UNCHANGED <<chainVars, voterDocs, qrFiles, issued, now, workload, helperCall, balances>>

\* contract.checkVoterStatus(address), a view call: its value with source
\* "blockchain", 500 when the provider is unavailable.
CheckStatus_Chain(p) ==
    \E up \in BOOLEAN :
        /\ pc[p] = "cs_chain"
        /\ LET r(status, error) == [Response("checkVoterStatus", status, error) EXCEPT !.addr = loc[p].addr]
           IN  IF up
               THEN Reply(p, [r(200, "") EXCEPT !.isVerified = VoterID_checkVoterStatus(Contract, loc[p].addr),
                                               !.source = "blockchain"])
               ELSE Reply(p, r(500, "Status check failed"))
        /\ UNCHANGED <<chainVars, voterDocs, qrFiles, issued, now, workload, helperCall, balances>>

\* ------------------------------------------- transactions sent by accounts
\* The contract's functions are public: any account may call them with any
\* arguments, without going through the backend.
Senders == {SIGNER, MALLORY} \cup Wallets
TxTargets == ReqAddrs \cup {ZeroAddress}
TxNameHashes == {createHash(n) : n \in Names} \cup {ZeroHash}
TxAadharHashes == {createHash("1111"), createHash("2222"), ZeroHash}

\* What the sender of a mined transaction observes: status, revert error, events.
Receipt(fn, sender, addr, call) ==
    [NoResp EXCEPT !.op = fn, !.status = IF call.ok THEN 1 ELSE 0, !.error = call.error,
                   !.sender = sender, !.addr = addr, !.events = call.events]

Tx_registerVoter(p) ==
    \E sender \in Senders, nameHash \in TxNameHashes, aadharHash \in TxAadharHashes :
        /\ CanStart(p, "tx")
        /\ LET call == VoterID_registerVoter(Contract, sender, nameHash, aadharHash, now)
           IN  /\ ContractBecomes(call.st)
               /\ ReplyAtOnce(p, Receipt("tx_registerVoter", sender, sender, call))
        /\ UNCHANGED <<voterDocs, qrFiles, issued, now, workload, helperCall, balances>>

Tx_registerVoterByAdmin(p) ==
    \E sender \in Senders, voterAddress \in TxTargets,
       nameHash \in TxNameHashes, aadharHash \in TxAadharHashes :
        /\ CanStart(p, "tx")
        /\ LET call == VoterID_registerVoterByAdmin(Contract, sender, voterAddress,
                                                    nameHash, aadharHash, now)
           IN  /\ ContractBecomes(call.st)
               /\ ReplyAtOnce(p, Receipt("tx_registerVoterByAdmin", sender, voterAddress, call))
        /\ UNCHANGED <<voterDocs, qrFiles, issued, now, workload, helperCall, balances>>

Tx_verifyVoter(p) ==
    \E sender \in Senders, voter \in TxTargets :
        /\ CanStart(p, "tx")
        /\ LET call == VoterID_verifyVoter(Contract, sender, voter, now)
           IN  /\ ContractBecomes(call.st)
               /\ ReplyAtOnce(p, Receipt("tx_verifyVoter", sender, voter, call))
        /\ UNCHANGED <<voterDocs, qrFiles, issued, now, workload, helperCall, balances>>

Tx_setRegistrationStatus(p) ==
    \E sender \in Senders, isOpen \in BOOLEAN :
        /\ CanStart(p, "tx")
        /\ LET call == VoterID_setRegistrationStatus(Contract, sender, isOpen)
           IN  /\ ContractBecomes(call.st)
               /\ ReplyAtOnce(p, Receipt("tx_setRegistrationStatus", sender, NULL, call))
        /\ UNCHANGED <<voterDocs, qrFiles, issued, now, workload, helperCall, balances>>

Tx_transferAdmin(p) ==
    \E sender \in Senders, newAdmin \in Senders \cup {ZeroAddress} :
        /\ CanStart(p, "tx")
        /\ LET call == VoterID_transferAdmin(Contract, sender, newAdmin)
           IN  /\ ContractBecomes(call.st)
               /\ ReplyAtOnce(p, Receipt("tx_transferAdmin", sender, newAdmin, call))
        /\ UNCHANGED <<voterDocs, qrFiles, issued, now, workload, helperCall, balances>>

\* -------------------------------------------------------------------- Next
Next ==
    \/ Tick
    \/ Collect
    \/ \E p \in Procs :
        \/ RegisterVoter_Find(p) \/ RegisterVoter_Chain(p) \/ RegisterVoter_Save(p)
        \/ RegisterAadhar_Find(p) \/ RegisterAadhar_Fund(p)
        \/ RegisterAadhar_Chain(p) \/ RegisterAadhar_Save(p)
        \/ VerifyVoter_Chain(p) \/ VerifyVoter_Find(p) \/ VerifyVoter_Save(p)
        \/ VerifyAadhar_Find(p) \/ VerifyAadhar_Save(p)
        \/ GenerateVotingQR_Find(p) \/ GenerateVotingQR_Upload(p) \/ GenerateVotingQR_Save(p)
        \/ QrRoute_Generate(p) \/ QrRoute_Delete(p)
        \/ ProcessVoting_Find(p) \/ ProcessVoting_Save(p)

\* Requests served one at a time.
Spec == Init /\ [][Next]_vars
\* Redemptions may overlap one another.
SpecRedeem == InitRedeem /\ [][Next]_vars
\* The registration endpoints alone, their requests overlapping one another.
NextRegister ==
    \/ Tick
    \/ Collect
    \/ \E p \in Procs :
        \/ RegisterVoter_Find(p) \/ RegisterVoter_Chain(p) \/ RegisterVoter_Save(p)
        \/ RegisterAadhar_Find(p) \/ RegisterAadhar_Fund(p)
        \/ RegisterAadhar_Chain(p) \/ RegisterAadhar_Save(p)

SpecRegister == InitRegister /\ [][NextRegister]_vars

\* The contract alone, called directly by any account.
InitContract == InitState /\ workload = "contract" /\ Funded

NextContract ==
    \/ Tick
    \/ Collect
    \/ \E p \in Procs :
        \/ Tx_registerVoter(p) \/ Tx_registerVoterByAdmin(p) \/ Tx_verifyVoter(p)
        \/ Tx_setRegistrationStatus(p) \/ Tx_transferAdmin(p)

SpecContract == InitContract /\ [][NextContract]_vars

\* Registration and verification through the backend, next to direct calls of
\* the contract by any account, all at one instant.
InitAdmin == InitState /\ workload = "admin" /\ Funded

NextAdmin ==
    \/ Collect
    \/ \E p \in Procs :
        \/ RegisterVoter_Find(p) \/ RegisterVoter_Chain(p) \/ RegisterVoter_Save(p)
        \/ VerifyVoter_Chain(p) \/ VerifyVoter_Find(p) \/ VerifyVoter_Save(p)
        \/ VerifyAadhar_Find(p) \/ VerifyAadhar_Save(p)
        \/ Tx_registerVoter(p) \/ Tx_registerVoterByAdmin(p) \/ Tx_verifyVoter(p)
        \/ Tx_setRegistrationStatus(p) \/ Tx_transferAdmin(p)

SpecAdmin == InitAdmin /\ [][NextAdmin]_vars

\* Registration, then verify requests that may overlap one another, at one
\* instant.
InitVerify == InitState /\ workload = "verify" /\ Funded

NextVerify ==
    \/ Collect
    \/ \E p \in Procs :
        \/ RegisterVoter_Find(p) \/ RegisterVoter_Chain(p) \/ RegisterVoter_Save(p)
        \/ VerifyVoter_Chain(p) \/ VerifyVoter_Find(p) \/ VerifyVoter_Save(p)
        \/ VerifyAadhar_Find(p) \/ VerifyAadhar_Save(p)

SpecVerify == InitVerify /\ [][NextVerify]_vars

\* Registration, verification and the status query, served one at a time at
\* one instant.
InitStatus == InitState /\ workload = "status" /\ Funded

NextStatus ==
    \/ Collect
    \/ \E p \in Procs :
        \/ RegisterVoter_Find(p) \/ RegisterVoter_Chain(p) \/ RegisterVoter_Save(p)
        \/ VerifyVoter_Chain(p) \/ VerifyVoter_Find(p) \/ VerifyVoter_Save(p)
        \/ VerifyAadhar_Find(p) \/ VerifyAadhar_Save(p)
        \/ CheckStatus_Find(p) \/ CheckStatus_Chain(p)

SpecStatus == InitStatus /\ [][NextStatus]_vars

\* The registration endpoints served one at a time while accounts keep sending
\* transactions to the contract. A handler that was started runs to its answer
\* (the event loop resumes every settled await); nothing obliges a client to
\* send a request.
InitReconcile == InitState /\ workload = "reconcile" /\ Funded

RegisterContinues ==
    \E p \in Procs :
        \/ RegisterVoter_Chain(p) \/ RegisterVoter_Save(p)
        \/ RegisterAadhar_Fund(p) \/ RegisterAadhar_Chain(p) \/ RegisterAadhar_Save(p)

NextReconcile ==
    \/ Collect
    \/ RegisterContinues
    \/ \E p \in Procs :
        \/ RegisterVoter_Find(p) \/ RegisterAadhar_Find(p)
        \/ Tx_setRegistrationStatus(p)

SpecReconcile == InitReconcile /\ [][NextReconcile]_vars /\ WF_vars(RegisterContinues)

\* ------------------------------------- registration, the ledger waits apart
\* The ledger call of a registration in its two awaits: the submission, which
\* the provider answers or fails, and tx.wait(), called without a timeout, which
\* settles only when the ledger confirms or drops the transaction.
Confirmations == LedgerOutcomes \ {"down"}

RegisterVoter_Submit(p) ==
    \E providerUp \in BOOLEAN :
        /\ pc[p] = "rv_chain"
        /\ Proceed(p, IF providerUp THEN "rv_wait" ELSE "rv_save",
                   [loc[p] EXCEPT !.chain = IF providerUp THEN NoResult ELSE Threw])
        /\ UNCHANGED <<chainVars, voterDocs, qrFiles, issued, now, workload, helperCall, balances>>

RegisterVoter_Confirm(p) ==
    \E outcome \in Confirmations :
        /\ pc[p] = "rv_wait"
        /\ LET h == createBlockchainHashes(loc[p].name, loc[p].aadhar)
               r == Chain_registerVoter(Contract, h.nameHash, h.aadharHash, loc[p].addr, outcome, now)
           IN  /\ ContractBecomes(r.st)
               /\ Proceed(p, "rv_save", [loc[p] EXCEPT !.chain = r.res])
        /\ UNCHANGED <<voterDocs, qrFiles, issued, now, workload, helperCall, balances>>

\* fundWallet up to sendTransaction: null when the balance is short or the
\* provider fails.
RegisterAadhar_FundSubmit(p) ==
    \E sent \in BOOLEAN :
        /\ pc[p] = "ra_fund"
        /\ Proceed(p, IF sent /\ balances[MASTER] >= 1 THEN "ra_fundwait" ELSE "ra_chain", loc[p])
        /\ UNCHANGED <<chainVars, voterDocs, qrFiles, issued, now, workload, helperCall, balances>>

\* fundWallet's tx.wait(): the funding hash, null when the wait rejects.
RegisterAadhar_FundConfirm(p) ==
    \E mined \in BOOLEAN :
        /\ pc[p] = "ra_fundwait"
        /\ LET r == fundWallet(balances, loc[p].addr, mined)
           IN  /\ balances' = r.balances
               /\ Proceed(p, "ra_chain", [loc[p] EXCEPT !.funding = r.hash])
        /\ UNCHANGED <<chainVars, voterDocs, qrFiles, issued, now, workload, helperCall>>

RegisterAadhar_Submit(p) ==
    \E providerUp \in BOOLEAN :
        /\ pc[p] = "ra_chain"
        /\ Proceed(p, IF providerUp THEN "ra_wait" ELSE "ra_save",
                   [loc[p] EXCEPT !.chain = IF providerUp THEN NoResult ELSE Threw])
        /\ UNCHANGED <<chainVars, voterDocs, qrFiles, issued, now, workload, helperCall, balances>>

RegisterAadhar_Confirm(p) ==
    \E outcome \in Confirmations :
        /\ pc[p] = "ra_wait"
        /\ LET h == createBlockchainHashes(loc[p].name, loc[p].aadhar)
               r == Chain_registerVoter(Contract, h.nameHash, h.aadharHash, loc[p].addr, outcome, now)
           IN  /\ ContractBecomes(r.st)
               /\ Proceed(p, "ra_save", [loc[p] EXCEPT !.chain = r.res])
        /\ UNCHANGED <<voterDocs, qrFiles, issued, now, workload, helperCall, balances>>

Waiting == {"rv_wait", "ra_fundwait", "ra_wait"}

InitWait == InitState /\ workload = "wait" /\ Funded

\* The awaits the store or the provider settles by itself.
HandlerRuns ==
    \E p \in Procs :
        \/ RegisterVoter_Submit(p) \/ RegisterVoter_Save(p)
        \/ RegisterAadhar_FundSubmit(p) \/ RegisterAadhar_Submit(p) \/ RegisterAadhar_Save(p)

\* The awaits only the ledger settles.
LedgerConfirms ==
    \E p \in Procs :
        \/ RegisterVoter_Confirm(p)
        \/ RegisterAadhar_FundConfirm(p) \/ RegisterAadhar_Confirm(p)

NextWait ==
    \/ Tick
    \/ Collect
    \/ HandlerRuns
    \/ LedgerConfirms
    \/ \E p \in Procs : RegisterVoter_Find(p) \/ RegisterAadhar_Find(p)

\* Every handler step the process can take by itself is taken; the ledger is
\* free never to confirm.
SpecWait == InitWait /\ [][NextWait]_vars /\ WF_vars(HandlerRuns)

\* -------------------------------------------- encrypt and decrypt on their own
Plaintexts == {Text(characters) : characters \in {"asha", "", "123", "true", "null", "{}"}}
UserDatas ==
    {[name |-> n, aadharNumber |-> a, phoneNumber |-> ph, email |-> NULL] :
        n \in Names \cup {"123"}, a \in Aadhars, ph \in {NULL, "98765"}}
TamperModes == {"body", "padding", "iv", "fallback", "key"}

\* A returned value, as the caller of a helper sees it.
Returned(value) == [threw |-> FALSE, value |-> value, error |-> ""]
NoResult_Yet == [threw |-> FALSE, value |-> << >>, error |-> "pending"]

\* What someone with write access to the store can make of a stored
\* {iv, encryptedData}, and the same data sealed under another key.
Tampered_Sealed(sealed, mode) ==
    LET c == sealed.encryptedData
    IN  CASE mode = "body" -> [sealed EXCEPT !.encryptedData = <<c[1], c[2], c[3], Garbled>>]
          [] mode = "padding" -> [sealed EXCEPT !.encryptedData = Append(c, "bad padding")]
          [] mode = "iv" -> [sealed EXCEPT !.iv = "iv2"]
          [] mode = "fallback" -> [iv |-> "fallback",
                                    encryptedData |-> <<"base64", Text("true")>>]
          [] mode = "key" -> [sealed EXCEPT !.encryptedData = <<c[1], "other_key", c[3], c[4]>>]

Call_encrypt ==
    \E data \in Plaintexts, iv \in Ivs :
        /\ helperCall = NoCall
        /\ helperCall' = [fn |-> "encrypt", stage |-> "sealed", input |-> data,
                    sealed |-> encrypt(data, iv), tamper |-> "none", output |-> NoResult_Yet]
        /\ UNCHANGED <<chainVars, voterDocs, qrFiles, issued, now, pc, loc, resp, workload, balances>>

Call_encryptSensitiveData ==
    \E userData \in UserDatas, iv \in Ivs :
        /\ helperCall = NoCall
        /\ LET e == encryptSensitiveData(userData, iv)
           IN  helperCall' = [fn |-> "encryptSensitiveData", stage |-> "sealed", input |-> userData,
                        sealed |-> [iv |-> e.iv, encryptedData |-> e.data],
                        tamper |-> "none", output |-> NoResult_Yet]
        /\ UNCHANGED <<chainVars, voterDocs, qrFiles, issued, now, pc, loc, resp, workload, balances>>

Tamper ==
    \E mode \in TamperModes :
        /\ helperCall.stage = "sealed"
        /\ helperCall.tamper = "none"
        /\ helperCall' = [helperCall EXCEPT !.sealed = Tampered_Sealed(@, mode), !.tamper = mode]
        /\ UNCHANGED <<chainVars, voterDocs, qrFiles, issued, now, pc, loc, resp, workload, balances>>

\* decrypt / decryptSensitiveData of what the store holds.
Call_decrypt ==
    /\ helperCall.stage = "sealed"
    /\ helperCall' = [helperCall EXCEPT
          !.stage = "opened",
          !.output = Returned(IF helperCall.fn = "encrypt"
                              THEN decrypt(helperCall.sealed)
                              ELSE decryptSensitiveData([data |-> helperCall.sealed.encryptedData,
                                                         iv |-> helperCall.sealed.iv]))]
    /\ UNCHANGED <<chainVars, voterDocs, qrFiles, issued, now, pc, loc, resp, workload, balances>>

\* ------------------------------------ generateWalletFromAadhar on its own
\* The identifier "9999" stands for one whose sha256 digest is 0 or not below
\* the order of secp256k1.
DeriveIds == {"1111", "2222", "9999"}
WeakDigests == {"sha256(9999" \o WALLET_SALT \o ")"}

\* new ethers.Wallet(privateKey) accepts the key.
isValidPrivateKey(privateKey) == privateKey \notin WeakDigests

Thrown(error) == [threw |-> TRUE, value |-> << >>, error |-> error]

\* generateWalletFromAadhar with its try/catch around new ethers.Wallet.
WalletOutcome(aadharNumber) ==
    LET walletData == generateWalletFromAadhar(aadharNumber)
    IN  IF isValidPrivateKey(walletData.privateKey)
        THEN Returned(walletData)
        ELSE Thrown("Failed to generate wallet: invalid private key")

\* The call made by a registration.
Call_generateWalletFromAadhar ==
    \E aadharNumber \in DeriveIds :
        /\ helperCall = NoCall
        /\ helperCall' = [fn |-> "generateWalletFromAadhar", stage |-> "first",
                          input |-> aadharNumber, output |-> WalletOutcome(aadharNumber),
                          again |-> NULL, outputAgain |-> NoResult_Yet]
        /\ UNCHANGED <<chainVars, voterDocs, qrFiles, issued, now, pc, loc, resp, workload, balances>>

\* A later call (another registration attempt, getWalletFromAadhar).
Call_getWalletFromAadhar ==
    \E aadharNumber \in DeriveIds :
        /\ helperCall.fn = "generateWalletFromAadhar"
        /\ helperCall.stage = "first"
        /\ helperCall' = [helperCall EXCEPT !.stage = "second", !.again = aadharNumber,
                                            !.outputAgain = WalletOutcome(aadharNumber)]
        /\ UNCHANGED <<chainVars, voterDocs, qrFiles, issued, now, pc, loc, resp, workload, balances>>

\* ------------------------------------------------- createHash on its own
\* Values a caller may pass, as <<typeof, String(value)>>.
HashInputs ==
    {<<"string", "asha">>, <<"string", "123">>, <<"string", "">>, <<"number", "123">>,
     <<"boolean", "true">>, <<"object", "[object Object]">>, <<"null", "null">>,
     <<"undefined", "undefined">>}

\* createHash(data) with its checks: null and undefined throw, everything else
\* is turned into a string by String(data) and hashed.
HashOutcome(data) ==
    IF data[1] \in {"null", "undefined"}
    THEN Thrown("Cannot hash null or undefined data")
    ELSE Returned(createHash(data[2]))

Call_createHash ==
    \E data \in HashInputs :
        /\ helperCall = NoCall
        /\ helperCall' = [fn |-> "createHash", stage |-> "done", input |-> data,
                          output |-> HashOutcome(data)]
        /\ UNCHANGED <<chainVars, voterDocs, qrFiles, issued, now, pc, loc, resp, workload, balances>>

InitCrypto == InitState /\ workload = "crypto" /\ Funded

NextCrypto ==
    \/ Call_encrypt \/ Call_encryptSensitiveData \/ Tamper \/ Call_decrypt
    \/ Call_generateWalletFromAadhar \/ Call_getWalletFromAadhar
    \/ Call_createHash

SpecCrypto == InitCrypto /\ [][NextCrypto]_vars

\* ============================================================== properties
Redeemed(p) == resp[p].op = "processVoting" /\ resp[p].status = 200
Quiescent == \A p \in Procs : pc[p] = "idle"
DocsOf(addr) == {i \in 1..Len(voterDocs) : voterDocs[i].blockchainAddress = addr}

\* C1: of two overlapping redemptions that carry the same issued, unexpired
\* credential, at most one is answered with success.
C1_OneRedemptionWins ==
    \A p, q \in Procs :
        (/\ p # q
         /\ Redeemed(p)
         /\ resp[q].op = "processVoting"
         /\ resp[p].payload = resp[q].payload
         /\ resp[p].payload \in issued
         /\ now < resp[p].payload.expiresAt)
        => resp[q].status # 200

\* C2: with requests served one at a time, a redemption that succeeds turns the
\* voter's isVoted from false to true, isVoted never goes back to false, and no
\* redemption succeeds for a voter whose isVoted is already true: at most one
\* redemption per voter ever succeeds.
C2_SingleUse ==
    [][/\ \A i \in 1..Len(voterDocs) : voterDocs[i].isVoted => voterDocs'[i].isVoted
       /\ \A p \in Procs :
             (/\ resp'[p] # resp[p]
              /\ resp'[p].op = "processVoting"
              /\ resp'[p].status = 200)
             => LET i == ByAddressVerified(resp'[p].addr)
                IN  i # 0 /\ ~voterDocs[i].isVoted /\ voterDocs'[i].isVoted]_vars

\* C2 witness: an issued credential presented after the voter's vote was
\* recorded is refused as already used.
C2_Witness ==
    \E p \in Procs :
        /\ resp[p].op = "processVoting"
        /\ resp[p].error = "Voter has already voted"
        /\ resp[p].payload \in issued
        /\ \E i \in DocsOf(resp[p].addr) : voterDocs[i].isVoted

\* C3: a redemption succeeds only with a payload that generateQRCodeForVoter
\* produced; a payload a caller assembled is refused.
C3_Unforgeable ==
    \A p \in Procs : Redeemed(p) => resp[p].payload \in issued

\* C4: between requests, never are two different issued payloads of one voter,
\* both before their expiresAt, both accepted by the redemption checks.
C4_OneLiveCredential ==
    \A q1, q2 \in issued :
        (/\ Quiescent
         /\ q1 # q2
         /\ q1.voterAddress = q2.voterAddress
         /\ now < q1.expiresAt
         /\ now < q2.expiresAt)
        => ~(RedeemError(q1) = "" /\ RedeemError(q2) = "")

\* C5: between requests, a credential, presented as issued or with its expiresAt
\* rewritten, passes the redemption checks only while now is before the
\* expiresAt it was issued with.
C5_RedeemOnlyBeforeExpiry ==
    \A q \in issued : \A e \in {q.expiresAt, MaxTime + 1} :
        (Quiescent /\ RedeemError([q EXCEPT !.expiresAt = e]) = "") => now < q.expiresAt

\* C6: a request to issue a credential for a registered voter whose isVerified is
\* false is answered with the not-verified error (on either issuing route).
C6_NotVerifiedRejected ==
    \A p \in Procs :
        (/\ resp[p].op \in {"generateVotingQR", "qrGenerate"}
         /\ resp[p].status # 403
         /\ \E i \in 1..Len(voterDocs) :
               /\ ~voterDocs[i].isVerified
               /\ \/ voterDocs[i].rawData.aadharNumber = resp[p].aadhar
                  \/ voterDocs[i].blockchainAddress = resp[p].addr)
        => resp[p].status = 400 /\ resp[p].error = "Voter is not verified"

\* C7: every issued payload names an address whose contract record is verified.
C7_IssuedOnlyIfLedgerVerified ==
    \A q \in issued : VoterID_checkVoterStatus(Contract, q.voterAddress)

\* C8: a registration whose contract call reverted (the contract already holds
\* the address or the Aadhar hash) inserts no document and is not answered 201.
C8_DuplicateRejected ==
    [][\A p \in Procs :
          (/\ pc[p] \in {"rv_save", "ra_save"}
           /\ pc'[p] = "idle"
           /\ loc[p].chain.status = "0")
          => voterDocs' = voterDocs /\ resp'[p].status # 201]_vars

\* C9: whatever the interleaving of registrations, at most one document and at
\* most one contract record hold a given Aadhar number's fingerprint.
C9_GloballyUnique ==
    \A a \in Aadhars :
        /\ Cardinality({i \in 1..Len(voterDocs) : voterDocs[i].rawData.aadharNumber = a}) <= 1
        /\ Cardinality({x \in DOMAIN voters : voters[x].aadharHash = createHash(a)}) <= 1

\* C10: a verifyVoter call for a voter whose document is already verified sends
\* no transaction, changes no document and is not answered with success.
C10_AlreadyVerifiedRejected ==
    [][\A p \in Procs, i \in 1..Len(voterDocs) :
          voterDocs[i].isVerified =>
              /\ (/\ pc[p] = "idle"
                  /\ pc'[p] = "vv_find"
                  /\ loc'[p].addr = voterDocs[i].blockchainAddress)
                 => ~loc'[p].chain.sent
              /\ (/\ pc[p] = "vv_save"
                  /\ pc'[p] = "idle"
                  /\ loc[p].doc = i)
                 => voterDocs' = voterDocs /\ resp'[p].status # 200]_vars

Answered(p) == resp'[p] # resp[p] /\ resp'[p] # NoResp

\* C11: on the contract, a registered address's nameHash, aadharHash and
\* registrationTimestamp never change (so the record is never deleted nor created
\* again), a registration for a registered address reverts, isVerified never
\* goes back to false, and a verifyVoter for a verified address reverts, with
\* VoterAlreadyVerified when the admin sent it, emits no event and leaves
\* lastVerifiedTimestamp as it was.
C11_RecordLifecycle ==
    [][/\ \A a \in DOMAIN voters :
            /\ voters[a].registrationTimestamp # 0 =>
                  /\ voters'[a].nameHash = voters[a].nameHash
                  /\ voters'[a].aadharHash = voters[a].aadharHash
                  /\ voters'[a].registrationTimestamp = voters[a].registrationTimestamp
            /\ voters[a].isVerified =>
                  /\ voters'[a].isVerified
                  /\ voters'[a].lastVerifiedTimestamp = voters[a].lastVerifiedTimestamp
       /\ \A p \in Procs :
            /\ (/\ Answered(p)
                /\ resp'[p].op \in {"tx_registerVoter", "tx_registerVoterByAdmin"}
                /\ voters[resp'[p].addr].registrationTimestamp # 0)
               => resp'[p].status = 0 /\ resp'[p].events = << >>
            /\ (/\ Answered(p)
                /\ resp'[p].op = "tx_verifyVoter"
                /\ voters[resp'[p].addr].isVerified)
               => /\ resp'[p].status = 0
                  /\ resp'[p].events = << >>
                  /\ resp'[p].sender = admin => resp'[p].error = "VoterAlreadyVerified"]_vars

\* C11 witness: the admin's second verifyVoter for a verified voter was reverted.
C11_Witness ==
    \E p \in Procs :
        /\ resp[p].op = "tx_verifyVoter"
        /\ resp[p].error = "VoterAlreadyVerified"
        /\ voters[resp[p].addr].isVerified

AdminOnly == {"tx_verifyVoter", "tx_registerVoterByAdmin", "tx_setRegistrationStatus",
              "tx_transferAdmin"}

\* C12: a contract record's isVerified goes from false to true only in a
\* verifyVoter transaction whose sender is the contract's admin (sent directly,
\* or by the backend for a request that presented the admin address); a
\* document's isVerified becomes true only at the end of a verify request that
\* presented the admin address; and a verifyVoter, registerVoterByAdmin,
\* setRegistrationStatus or transferAdmin transaction of any other sender
\* reverts with NotAdmin and changes nothing on the contract.
C12_AdminGated ==
    [][/\ \A a \in DOMAIN voters :
            (~voters[a].isVerified /\ voters'[a].isVerified) =>
                \E p \in Procs :
                    \/ /\ Answered(p)
                       /\ resp'[p].op = "tx_verifyVoter"
                       /\ resp'[p].sender = admin
                       /\ resp'[p].addr = a
                    \/ /\ pc[p] = "idle"
                       /\ pc'[p] = "vv_find"
                       /\ loc'[p].adminAddress = ADMIN_ADDRESS
                       /\ loc'[p].addr = a
                       /\ SIGNER = admin
       /\ \A i \in 1..Len(voterDocs') :
            (voterDocs'[i].isVerified /\ (i > Len(voterDocs) \/ ~voterDocs[i].isVerified)) =>
                \E p \in Procs :
                    /\ pc[p] \in {"vv_save", "va_save"}
                    /\ pc'[p] = "idle"
                    /\ loc[p].doc = i
                    /\ loc[p].adminAddress = ADMIN_ADDRESS
       /\ \A p \in Procs :
            (Answered(p) /\ resp'[p].op \in AdminOnly /\ resp'[p].sender # admin) =>
                /\ resp'[p].status = 0
                /\ resp'[p].error = "NotAdmin"
                /\ resp'[p].events = << >>
                /\ chainVars' = chainVars]_vars

\* C12 witness: after a voter was verified in the store and on the contract, a
\* verifyVoter transaction of an account that is not the admin was reverted
\* with NotAdmin.
C12_Witness ==
    \E p \in Procs :
        /\ resp[p].op = "tx_verifyVoter"
        /\ resp[p].sender # admin
        /\ resp[p].error = "NotAdmin"
        /\ \E i \in 1..Len(voterDocs) :
              voterDocs[i].isVerified /\ voters[voterDocs[i].blockchainAddress].isVerified

TxRefOf(doc) == IF doc.blockchain = None THEN NULL ELSE doc.blockchain[1].txHash

RegisterOps == {"registerVoter", "registerVoterWithAadhar"}

\* C14: a 201 of a registration carries onBlockchain true or a blockchainTxHash,
\* and a document carries a ledger txHash, only if the registration transaction
\* was mined with status 1 and the contract holds a record for that address.
C14_MarkerAccurate ==
    /\ \A p \in Procs :
          (/\ resp[p].op \in RegisterOps
           /\ resp[p].status = 201
           /\ resp[p].onBlockchain \/ resp[p].chain.hash # NULL)
          => /\ resp[p].chain.status = "1"
             /\ voters[resp[p].addr].registrationTimestamp # 0
    /\ \A i \in 1..Len(voterDocs) :
          TxRefOf(voterDocs[i]) # NULL
          => voters[voterDocs[i].blockchainAddress].registrationTimestamp # 0

\* What the caller of a registration reads in an error answer: the HTTP status
\* and the error and details of the body.
Visible(r) == <<r.status, r.error, r.details>>
\* The answer of a registration that wrote nothing: the ledger call threw and
\* voter.save() failed.
NothingWritten == <<500, "Registration failed", StoreError>>

\* C15: a registration whose transaction was mined with status 1 and whose
\* voter.save() then failed is answered differently from a registration that
\* wrote nothing.
C15_OrphanReported ==
    [][\A p \in Procs :
          (/\ pc[p] \in {"rv_save", "ra_save"}
           /\ pc'[p] = "idle"
           /\ loc[p].chain.status = "1"
           /\ voters[loc[p].addr].registrationTimestamp # 0
           /\ voterDocs' = voterDocs)
          => Visible(resp'[p]) # NothingWritten]_vars

\* C16: between requests, every document's isVerified equals the isVerified of
\* the contract record of the document's address.
C16_LedgerIsTruth ==
    Quiescent =>
        \A i \in 1..Len(voterDocs) :
            voterDocs[i].isVerified
                = VoterID_checkVoterStatus(Contract, voterDocs[i].blockchainAddress)

LedgerAvailable == \E p \in Procs : resp[p].status = 1
NullRef(i) == i <= Len(voterDocs) /\ TxRefOf(voterDocs[i]) = NULL

\* C18: if the ledger keeps answering, every document stored without a ledger
\* transaction hash eventually carries one.
C18_Reconciled ==
    ([]<>LedgerAvailable) =>
        \A i \in 1..MaxDocs : NullRef(i) ~> (i <= Len(voterDocs) /\ ~NullRef(i))

\* C19: every registration request that was started is eventually answered,
\* also when the ledger never confirms its transaction or its funding
\* transaction.
C19_BoundedWait ==
    \A p \in Procs : (pc[p] \in Registering \cup Waiting) ~> (pc[p] = "idle")

\* C20: the document a successful registerVoterWithAadhar stored opens
\* (decryptSensitiveData of its encryptedData) to an object with a
\* walletAbstraction entry whose encryptedPrivateKey, given to decryptPrivateKey
\* with the same Aadhar number, yields the derived private key.
C20_DerivedKeyInVault ==
    [][\A p \in Procs :
          (/\ pc[p] = "ra_save"
           /\ pc'[p] = "idle"
           /\ resp'[p].status = 201)
          => LET opened == decryptSensitiveData(voterDocs'[Len(voterDocs')].encryptedData)
             IN  /\ "walletAbstraction" \in DOMAIN opened
                 /\ decryptPrivateKey(opened["walletAbstraction"].encryptedPrivateKey,
                                      loc[p].aadhar)
                        = generateWalletFromAadhar(loc[p].aadhar).privateKey]_vars

\* C21: no document field that is stored outside encryptedData, and no field
\* of a contract record, holds an Aadhar number in clear.
C21_NoClearIdentifier ==
    /\ \A i \in 1..Len(voterDocs) :
          /\ voterDocs[i].rawData.aadharNumber \notin Aadhars
          /\ voterDocs[i].blockchainAddress \notin Aadhars
    /\ \A a \in DOMAIN voters :
          voters[a].nameHash \notin Aadhars /\ voters[a].aadharHash \notin Aadhars

\* C22: decrypt(encrypt(p)) is the string p for every string p, and
\* decryptSensitiveData(encryptSensitiveData(d)) holds every listed field that
\* d has, with d's value.
C22_RoundTrip ==
    (helperCall.stage = "opened" /\ helperCall.tamper = "none") =>
        /\ helperCall.fn = "encrypt" => helperCall.output.value = helperCall.input
        /\ helperCall.fn = "encryptSensitiveData" =>
              \A field \in sensitiveFields \cap DOMAIN helperCall.input :
                  helperCall.input[field] # NULL =>
                      /\ field \in DOMAIN helperCall.output.value
                      /\ helperCall.output.value[field] = helperCall.input[field]

\* C23: decrypt and decryptSensitiveData of a stored value that was modified,
\* or that was sealed under another key, throw; they return nothing.
C23_TamperDetected ==
    (helperCall.stage = "opened" /\ helperCall.tamper # "none") => helperCall.output.threw

C25_WeakSeedRederived ==
    (helperCall.fn = "generateWalletFromAadhar" /\ helperCall.stage = "first") =>
        /\ ~helperCall.output.threw
        /\ isValidPrivateKey(helperCall.output.value.privateKey)

\* C26: createHash throws for the empty string and for every value that is not
\* a string.
C26_HashRejectsInvalid ==
    (/\ helperCall.fn = "createHash"
     /\ helperCall.input[1] # "string" \/ helperCall.input[2] = "")
    => helperCall.output.threw

VerifyOps == {"verifyVoter", "verifyVoterByAadhar"}

\* C27: a verify request that is answered with an error has set isVerified
\* neither in a document nor on the contract: the answering step changes no
\* flag, and the request's own transaction was not mined with status 1 before.
C27_VerifyAllOrNothing ==
    [][\A p \in Procs :
          (Answered(p) /\ resp'[p].op \in VerifyOps /\ resp'[p].status >= 400) =>
              /\ Len(voterDocs') = Len(voterDocs)
              /\ \A i \in 1..Len(voterDocs) :
                    voterDocs'[i].isVerified = voterDocs[i].isVerified
              /\ \A a \in DOMAIN voters : voters'[a].isVerified = voters[a].isVerified
              /\ loc[p].chain.status # "1"]_vars

\* C28: of two overlapping verify requests for the same voter, at most one is
\* answered with success.
C28_OneVerificationWins ==
    \A p, q \in Procs :
        (/\ p # q
         /\ resp[p].op \in VerifyOps
         /\ resp[q].op \in VerifyOps
         /\ resp[p].addr = resp[q].addr
         /\ resp[p].status = 200)
        => resp[q].status # 200

\* C29: a redemption is answered with success only for a voter in state Issued:
\* a credential was issued for the voter's address before, and it was not
\* deleted since (no state of the program follows a deletion: the DELETE route
\* never reaches the document). A voter in state NotIssued is never redeemed.
C29_RedeemOnlyFromIssued ==
    \A p \in Procs :
        Redeemed(p) => \E q \in issued : q.voterAddress = resp[p].addr

\* The consumed flag, the voting date and the active flag of every document.
RedeemMarks(docs) ==
    [i \in 1..Len(docs) |-> <<docs[i].isVoted, docs[i].votingDate, docs[i].qrCode.isActive>>]

\* C30: a step of a redemption that does not answer it with success changes
\* isVoted, votingDate and qrCode.isActive of no document, and a redemption
\* answered with failure is over: the handler holds no further attempt.
C30_FailedRedeemChangesNothing ==
    [][\A p \in Procs :
          /\ (Answered(p) /\ resp'[p].op = "processVoting" /\ resp'[p].status # 200)
             => /\ RedeemMarks(voterDocs') = RedeemMarks(voterDocs)
                /\ pc'[p] = "idle"
                /\ loc'[p] = IdleLoc
          /\ (pc'[p] = "pv_save" /\ pc[p] # "pv_save")
             => RedeemMarks(voterDocs') = RedeemMarks(voterDocs)]_vars

\* A redemption that passed every check was answered with failure because the
\* save failed.
C30_Witness ==
    \E p \in Procs :
        /\ resp[p].op = "processVoting"
        /\ resp[p].status = 400
        /\ resp[p].error = "Failed to process vote"

\* C31: the first step of a registration, which holds the uniqueness check,
\* issues no ledger transaction, no funding and no vault write, whether it lets
\* the request pass or rejects it: a request rejected as already registered
\* leaves the contract, the voters collection and every balance as they were,
\* and every write of a registration is a later step of a request that passed.
C31_CheckBeforeWrites ==
    [][\A p \in Procs :
          /\ (/\ pc[p] = "idle"
              /\ \/ Answered(p) /\ resp'[p].op \in RegisterOps
                 \/ loc'[p].op \in RegisterOps)
             => /\ Contract' = Contract
                /\ voterDocs' = voterDocs
                /\ balances' = balances
          /\ (/\ loc[p].op \in RegisterOps
              /\ pc'[p] # pc[p]
              /\ Contract' # Contract \/ voterDocs' # voterDocs \/ balances' # balances)
             => pc[p] \in Registering]_vars

\* A registration was rejected as already registered while the master wallet
\* could still fund, the ledger holds a record and the collection a document.
C31_Witness ==
    \E p \in Procs :
        /\ resp[p].op \in RegisterOps
        /\ resp[p].status = 400
        /\ balances[MASTER] >= 1
        /\ voterCount >= 1
        /\ Len(voterDocs) >= 1

\* The nameHash and aadharHash of a document's blockchain field, of a ledger
\* record, and of the fingerprints recomputed from a name and an identifier.
HashesOfDoc(doc) ==
    IF doc.blockchain = None THEN None
    ELSE Some(<<doc.blockchain[1].nameHash, doc.blockchain[1].aadharHash>>)
HashesOfRecord(record) == Some(<<record.nameHash, record.aadharHash>>)
Fingerprints(name, aadharNumber) ==
    Some(<<"keccak256(" \o name \o ")", "keccak256(" \o aadharNumber \o ")">>)

\* C32: a registration answered 201 whose own ledger transaction was mined with
\* status 1 has written both stores; the hashes of the document it saved equal
\* those of the ledger record at the same address and the fingerprints of the
\* name and identifier it was called with. Afterwards the hashes of a document
\* and of a registered ledger record never change.
C32_FingerprintsAgree ==
    [][/\ \A p \in Procs :
             (/\ Answered(p)
              /\ resp'[p].op \in RegisterOps
              /\ resp'[p].status = 201
              /\ loc[p].chain.status = "1")
             => /\ Len(voterDocs') = Len(voterDocs) + 1
                /\ LET doc == voterDocs'[Len(voterDocs')]
                   IN  /\ doc.blockchainAddress = loc[p].addr
                       /\ HashesOfDoc(doc) = HashesOfRecord(voters'[loc[p].addr])
                       /\ HashesOfDoc(doc) = Fingerprints(loc[p].name, loc[p].aadhar)
                       /\ doc.rawData = [name |-> loc[p].name, aadharNumber |-> loc[p].aadhar]
       /\ \A i \in 1..Len(voterDocs) :
             /\ Len(voterDocs') >= i
             /\ HashesOfDoc(voterDocs'[i]) = HashesOfDoc(voterDocs[i])
             /\ voterDocs'[i].rawData = voterDocs[i].rawData
             /\ voterDocs'[i].blockchainAddress = voterDocs[i].blockchainAddress
       /\ \A a \in DOMAIN voters :
             voters[a].registrationTimestamp # 0
             => HashesOfRecord(voters'[a]) = HashesOfRecord(voters[a])]_vars

\* A registration answered 201 after its ledger transaction was mined with
\* status 1: the document and the ledger record of its address both exist.
C32_Witness ==
    \E p \in Procs :
        /\ resp[p].op \in RegisterOps
        /\ resp[p].status = 201
        /\ resp[p].chain.status = "1"
        /\ voters[resp[p].addr].registrationTimestamp # 0
        /\ DocsOf(resp[p].addr) # {}

\* C33: no two documents of the voters collection carry the same
\* blockchainAddress.
C33_AddressUnique ==
    \A i, j \in 1..Len(voterDocs) :
        i # j => voterDocs[i].blockchainAddress # voterDocs[j].blockchainAddress

\* C34: every step leaves each document with isVoted true also with isVerified
\* true and a votingDate, and turns neither isVerified nor isVoted of a document
\* from true to false (no document is removed either).
C34_StatusMonotone ==
    [][/\ \A i \in 1..Len(voterDocs') :
             voterDocs'[i].isVoted
             => voterDocs'[i].isVerified /\ voterDocs'[i].votingDate # 0
       /\ \A i \in 1..Len(voterDocs) :
             /\ Len(voterDocs') >= i
             /\ voterDocs[i].isVerified => voterDocs'[i].isVerified
             /\ voterDocs[i].isVoted => voterDocs'[i].isVoted]_vars

\* A document was marked as voted, and requests went on after that.
C34_Witness ==
    /\ \E i \in 1..Len(voterDocs) : voterDocs[i].isVoted /\ voterDocs[i].isVerified
    /\ \E p \in Procs : resp[p].op \notin {"none", "processVoting"}

\* The addresses with a record on the contract, before and after a step.
RegisteredAddrs == {a \in DOMAIN voters : voters[a].registrationTimestamp # 0}
RegisteredAddrsAfter == {a \in DOMAIN voters' : voters'[a].registrationTimestamp # 0}
RegistrationReverts ==
    {"AlreadyRegistered", "AadharAlreadyRegistered", "EmptyHash", "InvalidAddress",
     "RegistrationClosed"}

\* C35: after every step usedAadharHashes holds exactly the aadharHash of the
\* registered records, no two registered addresses have the same aadharHash, and
\* a call that reverts with one of the registration errors leaves
\* usedAadharHashes, voters and voterCount as they were.
C35_AadharHashUnique ==
    [][/\ usedAadharHashes' = {voters'[a].aadharHash : a \in RegisteredAddrsAfter}
       /\ \A a, b \in RegisteredAddrsAfter :
             a # b => voters'[a].aadharHash # voters'[b].aadharHash
       /\ \A p \in Procs :
             (Answered(p) /\ resp'[p].error \in RegistrationReverts)
             => /\ resp'[p].status = 0
                /\ usedAadharHashes' = usedAadharHashes
                /\ voters' = voters
                /\ voterCount' = voterCount]_vars

\* A registration carrying an aadharHash in use was reverted while two
\* addresses are registered.
C35_Witness ==
    /\ Cardinality(RegisteredAddrs) = 2
    /\ \E p \in Procs : resp[p].error = "AadharAlreadyRegistered"

\* C36: voterCount is the number of addresses whose record has a
\* registrationTimestamp other than 0, and every such record has a nameHash and
\* an aadharHash other than zero.
C36_VoterCount ==
    /\ voterCount = Cardinality(RegisteredAddrs)
    /\ \A a \in RegisteredAddrs :
          voters[a].nameHash # ZeroHash /\ voters[a].aadharHash # ZeroHash

\* Two addresses are registered, one by itself and one by the admin, and a
\* registration with an empty hash was reverted.
C36_Witness ==
    /\ voterCount = 2
    /\ voters[SIGNER].registrationTimestamp # 0
    /\ \E a \in Wallets : voters[a].registrationTimestamp # 0
    /\ \E p \in Procs : resp[p].error = "EmptyHash"

TxRegistrations == {"tx_registerVoter", "tx_registerVoterByAdmin"}

\* What C37 says besides the error of a registration sent while registration is
\* closed: such a step adds no record, registrationOpen changes only in a
\* setRegistrationStatus sent by the admin, and a verifyVoter sent by the admin
\* for a registered, unverified voter succeeds whether registration is open or
\* closed.
GateFrame ==
    /\ ~registrationOpen
       => RegisteredAddrsAfter = RegisteredAddrs /\ voterCount' = voterCount
    /\ registrationOpen' # registrationOpen
       => \E p \in Procs : /\ Answered(p)
                           /\ resp'[p].op = "tx_setRegistrationStatus"
                           /\ resp'[p].sender = admin
                           /\ resp'[p].status = 1
    /\ \A p \in Procs :
          (/\ Answered(p)
           /\ resp'[p].op = "tx_verifyVoter"
           /\ resp'[p].sender = admin
           /\ voters[resp'[p].addr].registrationTimestamp # 0
           /\ ~voters[resp'[p].addr].isVerified)
          => /\ resp'[p].status = 1
             /\ voters'[resp'[p].addr].isVerified

\* C37: while registrationOpen is false every registerVoter and
\* registerVoterByAdmin call reverts with RegistrationClosed and creates no
\* record; registrationOpen changes only through the admin's
\* setRegistrationStatus; a closed registration does not affect verifyVoter.
C37_ClosedGate ==
    [][/\ GateFrame
       /\ \A p \in Procs :
             (Answered(p) /\ resp'[p].op \in TxRegistrations /\ ~registrationOpen)
             => resp'[p].status = 0 /\ resp'[p].error = "RegistrationClosed"]_vars

\* C37, amended: as C37, but a registerVoterByAdmin sent by another account
\* than the admin reverts with NotAdmin, the modifier running before the gate.
C37_ClosedGate_Amended ==
    [][/\ GateFrame
       /\ \A p \in Procs :
             (Answered(p) /\ resp'[p].op \in TxRegistrations /\ ~registrationOpen)
             => /\ resp'[p].status = 0
                /\ resp'[p].error =
                      IF resp'[p].op = "tx_registerVoterByAdmin" /\ resp'[p].sender # admin
                      THEN "NotAdmin" ELSE "RegistrationClosed"]_vars

\* Registration is closed, a voter is registered, and a registration was
\* reverted with RegistrationClosed.
C37_Witness ==
    /\ ~registrationOpen
    /\ voterCount >= 1
    /\ \E p \in Procs : resp[p].op \in TxRegistrations /\ resp[p].error = "RegistrationClosed"

\* The accounts whose call passes onlyAdmin on the contract as a step leaves it:
\* the senders setRegistrationStatus does not revert for.
PassOnlyAdminAfter ==
    {a \in Senders \cup {ZeroAddress} :
        VoterID_setRegistrationStatus(Contract', a, TRUE).ok}

\* C39: admin is never the zero address; a transferAdmin sent by the admin with
\* a newAdmin other than zero succeeds and leaves newAdmin the only account that
\* passes onlyAdmin; sent by the admin with the zero address it reverts with
\* InvalidAddress and leaves admin as it was; admin changes in no other step.
C39_AdminTransfer ==
    [][/\ admin # ZeroAddress /\ admin' # ZeroAddress
       /\ \A p \in Procs :
             (Answered(p) /\ resp'[p].op = "tx_transferAdmin" /\ resp'[p].sender = admin)
             => IF resp'[p].addr # ZeroAddress
                THEN /\ resp'[p].status = 1
                     /\ admin' = resp'[p].addr
                     /\ PassOnlyAdminAfter = {resp'[p].addr}
                ELSE /\ resp'[p].status = 0
                     /\ resp'[p].error = "InvalidAddress"
                     /\ admin' = admin
       /\ admin' # admin
          => \E p \in Procs : /\ Answered(p)
                              /\ resp'[p].op = "tx_transferAdmin"
                              /\ resp'[p].sender = admin
                              /\ resp'[p].status = 1]_vars

\* The admin handed the contract over to another account, and a later
\* transferAdmin to the zero address by the new admin was reverted.
C39_Witness ==
    /\ admin # SIGNER
    /\ \E p \in Procs : /\ resp[p].op = "tx_transferAdmin"
                        /\ resp[p].sender = admin
                        /\ resp[p].error = "InvalidAddress"

\* C38: a registerVoterWithAadhar request whose funding was sent ends with a
\* document saved (201), and no derived address ever receives more than one
\* funding, whatever attempts are made for its identifier.
C38_FundingTiedToRegistration ==
    [][/\ \A p \in Procs :
             (/\ Answered(p)
              /\ resp'[p].op = "registerVoterWithAadhar"
              /\ loc[p].funding # NULL)
             => /\ resp'[p].status = 201
                /\ Len(voterDocs') = Len(voterDocs) + 1
       /\ \A a \in DerivedAddrs : balances'[a] <= 1]_vars

====
